---- MODULE Spec2Model ----
(***************************************************************************)
(* Position lifecycles of the options back-tester.                         *)
(*                                                                         *)
(* SpecPut : PutSellingStrategy (src/strategies/put_selling_strategy.py),  *)
(*           one action per bar: PutSellingStrategy.next.                  *)
(* SpecIC  : IronCondorStrategy (src/strategies/iron_condor_strategy.py)   *)
(*           over the option chain of src/utils/options_pricing.py,        *)
(*           one action per bar: IronCondorStrategy.next.                  *)
(* SpecBacktest : a back-test of either strategy, SpecPut or SpecIC.       *)
(* SpecSelect : the strike selection of an iron-condor entry and the       *)
(*           closest-strike search, one action per call.                   *)
(* SpecExpiry : the expiry a new iron condor gets, over the calendar.      *)
(* SpecPricing : the functions of src/utils/options_pricing.py, one action *)
(*           per call, and one per iteration of the loop of calculate_iv.  *)
(*                                                                         *)
(* Arithmetic.  The Python code computes in binary floating point; the     *)
(* model computes the same expressions exactly, in fixed point.  Money of  *)
(* the short-put strategy is counted in units of 1/MoneyScale dollar, the  *)
(* unit in which every product of the code's decimal constants (0.2, 0.8,  *)
(* 0.05, 1/30, percentages) with a spot price that is a multiple of 10 is  *)
(* an integer.  A ratio the code stores (profit_pct) is kept as the pair   *)
(* numerator/denominator.  All intermediate values fit 32 bits.            *)
(*                                                                         *)
(* The series kept only for plotting (equity_curve, returns, dates) are    *)
(* written by next() and read by no decision; they are not modelled.       *)
(***************************************************************************)
EXTENDS Integers, Sequences, FiniteSets, TLC

VARIABLES
    params,     \* the strategy's params (percentages as integers)
    put,        \* the PutSellingStrategy instance's fields (self.*)
    condor,     \* the IronCondorStrategy instance's fields (self.*)
    cash,       \* broker cash, read by getcash()/getvalue(), written by add_cash()
    today,      \* self.data.datetime.date(): day number of the last bar
    data,       \* self.data[0]: the close of the last bar
    sma,        \* self.sma[0]: the moving average at the last bar, in dollars
    atr,        \* self.atr: value = atr[0], sum20 = sum(atr.array[-20:]), in cents
    bars,       \* len(self): the number of bars delivered to next()
    raised,     \* the exception that escaped next() and ended the run, "" if none
    log,        \* the log lines written by the last call of next(), in order
    lib,        \* the last call of a function on its own: its name, arguments, result
    solver      \* the frame of calculate_iv: arguments, locals, position, result

vars == <<params, put, condor, cash, today, data, sma, atr, bars, raised, log,
          lib, solver>>

\* the state of the strategies and of their driver
strategyVars == <<params, put, condor, cash, today, data, sma, atr, bars, raised, log>>

----------------------------------------------------------------------------
(* Bounds of the model *)

\* last day number of the back-test
MaxDay == 48
\* a run stops opening positions after this many recorded trades
MaxTrades == 2

(* 1/MoneyScale dollar is the money unit of the short-put model *)
MoneyScale == 3 * 50

\* the driver's inputs
Prices == {60, 70, 100, 150}
SmaValues == {80, 100}
Gaps == {7, 15, 16}
StartCash == {5000, 100000}
PutDeltas == {30, 90}
RiskPercentages == {2, 20}

Dollars(x) == x * MoneyScale

\* the number of bars of an iron-condor run
MaxBars == 3

\* the largest max_iterations calculate_iv is called with
MaxIterations == 12

\* the entry dates tried: this many days from StartDate on
CalendarDays == 800

\* the iron-condor driver's inputs, prices in cents
CondorPrices == {1000, 1100}
CondorGaps == {1, 40}
AtrReadings ==
    { [ value |-> 0, sum20 |-> 0 ],
      [ value |-> 10, sum20 |-> 200 ],
      [ value |-> 30, sum20 |-> 1000 ],
      [ value |-> 70, sum20 |-> 1400 ],
      [ value |-> 70, sum20 |-> 2800 ],
      [ value |-> 120, sum20 |-> 1200 ] }
\* the runs: --call-delta, --profit-target and --cash of run_iron_condor.py
CondorRuns ==
    { [ call_delta |-> 3000, profit_target_pct |-> 50, cash |-> 10000000 ],
      [ call_delta |-> 10000, profit_target_pct |-> 50, cash |-> 10000000 ],
      [ call_delta |-> 3000, profit_target_pct |-> 2, cash |-> 100000 ] }
\* the bars already seen when the model starts: none, 19, or one short of a year
WarmBars == {0, 19, 251}
BasePrice == 10 * 100
WarmAtr == [ value |-> 70, sum20 |-> 1400 ]

----------------------------------------------------------------------------
(* Python values *)

None == 0 - 1

Max(a, b) == IF a >= b THEN a ELSE b

\* math.floor(a / b) for b # 0
Floor(a, b) == IF b > 0 THEN a \div b ELSE (0 - a) \div (0 - b)

\* a / b rounded towards zero, b > 0
Quot(a, b) == IF a >= 0 THEN a \div b ELSE 0 - ((0 - a) \div b)

\* a local variable, "x = v" followed by the statements F(x): v is evaluated once
With(v, F(_)) == CHOOSE result \in { F(x) : x \in {v} } : TRUE

----------------------------------------------------------------------------
(* Fixed-point arithmetic for the pricing library.                          *)
(*                                                                          *)
(* Spot, strikes and option prices are integers in cents; volatilities and  *)
(* rates are integers in 1/10000; time to expiry is a whole number of days  *)
(* (the code's T is days / 365.0).  math.log, math.sqrt, math.exp and       *)
(* scipy's norm.cdf are evaluated in fixed point to about seven digits:     *)
(* logarithm and exponential by their series, the square root by bisection, *)
(* norm.cdf by linear interpolation in a table of step 0.005.  On the       *)
(* model's inputs the rounded prices and deltas agree with the floating     *)
(* point code up to one unit of the last rounded digit.                     *)

Abs(x) == IF x >= 0 THEN x ELSE 0 - x
Min(a, b) == IF a <= b THEN a ELSE b

\* floor(a * 10^k / b) for a >= 0, b > 0, by long division
RECURSIVE DivDecQR(_, _, _, _)
DivDecQR(q, r, b, k) ==
    IF k = 0 THEN q
    ELSE With(<<q * 10 + (r * 10) \div b, (r * 10) % b>>,
              LAMBDA qr : DivDecQR(qr[1], qr[2], b, k - 1))
DivDec(a, b, k) ==
    With(<<a, b>>, LAMBDA ab : DivDecQR(ab[1] \div ab[2], ab[1] % ab[2], ab[2], k))

\* math.sqrt: the integer square root, the largest k with k * k <= n
RECURSIVE ISqrtIn(_, _, _)
ISqrtIn(n, lo, hi) ==
    IF lo >= hi THEN lo
    ELSE With((lo + hi + 1) \div 2, LAMBDA mid :
              IF mid * mid <= n THEN ISqrtIn(n, mid, hi) ELSE ISqrtIn(n, lo, mid - 1))
ISqrt(n) == With(n, LAMBDA m : ISqrtIn(m, 0, 46340))

\* math.log(a / b) in 1/10^6, for 2/3 < a / b < 3/2: 2 atanh(y) with
\* y = (a - b) / (a + b)
Ln6(a, b) ==
    With(DivDec(Abs(a - b), a + b, 6), LAMBDA y6 :
    LET y5 == y6 \div 10
        y2 == (y5 * y5) \div 10000
        y4 == (y2 * y2) \div 1000000
        y6p == (y4 * y2) \div 1000000
        y8 == (y6p * y2) \div 1000000
        s == y2 \div 3 + y4 \div 5 + y6p \div 7 + y8 \div 9
        v == 2 * y6 + (2 * y5 * s) \div 100000
    IN  IF a >= b THEN v ELSE 0 - v)

\* math.exp(-x) in 1/10^7, for 0 <= x < 0.1 given in 1/10^7
ExpNeg7(x7) ==
    LET x6 == x7 \div 10
        x2 == (x6 * x6) \div 100000
        x3 == ((x2 \div 10) * x6) \div 1000000
    IN  10000000 - x7 + x2 \div 2 - x3 \div 6

\* norm.cdf(i * 0.005) in 1/10^7, at index i + 1, for i = 0 .. 1000
NormCdfTable ==
    <<
       5000000, 5019947, 5039894, 5059839, 5079783, 5099725, 5119665, 5139601, 5159534, 5179463,
       5199388, 5219308, 5239222, 5259130, 5279032, 5298926, 5318814, 5338693, 5358564, 5378426,
       5398278, 5418121, 5437953, 5457774, 5477584, 5497382, 5517168, 5536941, 5556700, 5576446,
       5596177, 5615893, 5635595, 5655280, 5674949, 5694602, 5714237, 5733855, 5753454, 5773035,
       5792597, 5812139, 5831662, 5851163, 5870644, 5890104, 5909541, 5928956, 5948349, 5967718,
       5987063, 6006385, 6025681, 6044953, 6064199, 6083419, 6102612, 6121779, 6140919, 6160031,
       6179114, 6198169, 6217195, 6236192, 6255158, 6274095, 6293000, 6311875, 6330717, 6349528,
       6368307, 6387052, 6405764, 6424443, 6443088, 6461698, 6480273, 6498813, 6517317, 6535786,
       6554217, 6572612, 6590970, 6609290, 6627573, 6645817, 6664022, 6682188, 6700314, 6718401,
       6736448, 6754454, 6772419, 6790343, 6808225, 6826065, 6843863, 6861618, 6879331, 6896999,
       6914625, 6932206, 6949743, 6967235, 6984682, 7002084, 7019440, 7036751, 7054015, 7071232,
       7088403, 7105527, 7122603, 7139631, 7156612, 7173544, 7190427, 7207261, 7224047, 7240783,
       7257469, 7274105, 7290691, 7307226, 7323711, 7340145, 7356527, 7372858, 7389137, 7405364,
       7421539, 7437661, 7453731, 7469748, 7485711, 7501621, 7517478, 7533280, 7549029, 7564723,
       7580363, 7595949, 7611479, 7626955, 7642375, 7657740, 7673049, 7688303, 7703500, 7718641,
       7733726, 7748755, 7763727, 7778642, 7793501, 7808302, 7823046, 7837732, 7852361, 7866932,
       7881446, 7895902, 7910299, 7924638, 7938919, 7953142, 7967306, 7981411, 7995458, 8009446,
       8023375, 8037244, 8051055, 8064806, 8078498, 8092130, 8105703, 8119217, 8132671, 8146065,
       8159399, 8172673, 8185887, 8199042, 8212136, 8225170, 8238145, 8251059, 8263912, 8276706,
       8289439, 8302112, 8314724, 8327276, 8339768, 8352199, 8364569, 8376880, 8389129, 8401319,
       8413447, 8425516, 8437524, 8449471, 8461358, 8473184, 8484950, 8496655, 8508300, 8519885,
       8531409, 8542873, 8554277, 8565620, 8576903, 8588126, 8599289, 8610392, 8621434, 8632417,
       8643339, 8654202, 8665005, 8675748, 8686431, 8697055, 8707619, 8718123, 8728568, 8738954,
       8749281, 8759548, 8769756, 8779905, 8789995, 8800026, 8809999, 8819913, 8829768, 8839565,
       8849303, 8858983, 8868606, 8878170, 8887676, 8897124, 8906514, 8915847, 8925123, 8934341,
       8943502, 8952606, 8961653, 8970643, 8979577, 8988454, 8997274, 9006039, 9014747, 9023399,
       9031995, 9040536, 9049021, 9057450, 9065825, 9074144, 9082409, 9090618, 9098773, 9106874,
       9114920, 9122912, 9130850, 9138735, 9146565, 9154343, 9162067, 9169738, 9177356, 9184921,
       9192433, 9199894, 9207302, 9214658, 9221962, 9229214, 9236415, 9243565, 9250663, 9257711,
       9264707, 9271654, 9278550, 9285395, 9292191, 9298937, 9305634, 9312281, 9318879, 9325428,
       9331928, 9338380, 9344783, 9351138, 9357445, 9363705, 9369916, 9376081, 9382198, 9388269,
       9394292, 9400270, 9406201, 9412085, 9417924, 9423718, 9429466, 9435168, 9440826, 9446439,
       9452007, 9457531, 9463011, 9468447, 9473839, 9479187, 9484493, 9489755, 9494974, 9500151,
       9505285, 9510378, 9515428, 9520436, 9525403, 9530329, 9535213, 9540057, 9544860, 9549623,
       9554345, 9559028, 9563671, 9568274, 9572838, 9577363, 9581849, 9586296, 9590705, 9595076,
       9599408, 9603703, 9607961, 9612181, 9616364, 9620511, 9624620, 9628693, 9632730, 9636732,
       9640697, 9644627, 9648521, 9652380, 9656205, 9659995, 9663750, 9667472, 9671159, 9674812,
       9678432, 9682019, 9685572, 9689093, 9692581, 9696036, 9699460, 9702851, 9706210, 9709538,
       9712834, 9716100, 9719334, 9722537, 9725711, 9728853, 9731966, 9735049, 9738102, 9741125,
       9744119, 9747085, 9750021, 9752929, 9755808, 9758659, 9761482, 9764278, 9767045, 9769786,
       9772499, 9775185, 9777844, 9780477, 9783083, 9785663, 9788217, 9790746, 9793248, 9795726,
       9798178, 9800605, 9803007, 9805385, 9807738, 9810067, 9812372, 9814653, 9816911, 9819145,
       9821356, 9823543, 9825708, 9827850, 9829970, 9832067, 9834142, 9836195, 9838226, 9840236,
       9842224, 9844191, 9846137, 9848062, 9849966, 9851849, 9853713, 9855556, 9857379, 9859182,
       9860966, 9862730, 9864474, 9866200, 9867906, 9869594, 9871263, 9872913, 9874545, 9876159,
       9877755, 9879333, 9880894, 9882437, 9883962, 9885470, 9886962, 9888436, 9889893, 9891334,
       9892759, 9894167, 9895559, 9896935, 9898296, 9899640, 9900969, 9902283, 9903581, 9904865,
       9906133, 9907386, 9908625, 9909850, 9911060, 9912255, 9913437, 9914604, 9915758, 9916898,
       9918025, 9919138, 9920237, 9921324, 9922397, 9923458, 9924506, 9925541, 9926564, 9927574,
       9928572, 9929558, 9930531, 9931493, 9932443, 9933382, 9934309, 9935224, 9936128, 9937021,
       9937903, 9938774, 9939634, 9940484, 9941323, 9942151, 9942969, 9943776, 9944574, 9945361,
       9946139, 9946906, 9947664, 9948412, 9949151, 9949880, 9950600, 9951311, 9952012, 9952705,
       9953388, 9954063, 9954729, 9955386, 9956035, 9956676, 9957308, 9957931, 9958547, 9959155,
       9959754, 9960346, 9960930, 9961506, 9962074, 9962635, 9963189, 9963735, 9964274, 9964806,
       9965330, 9965848, 9966358, 9966862, 9967359, 9967849, 9968333, 9968810, 9969280, 9969745,
       9970202, 9970654, 9971099, 9971539, 9971972, 9972399, 9972821, 9973236, 9973646, 9974050,
       9974449, 9974842, 9975229, 9975611, 9975988, 9976360, 9976726, 9977087, 9977443, 9977794,
       9978140, 9978482, 9978818, 9979150, 9979476, 9979799, 9980116, 9980429, 9980738, 9981042,
       9981342, 9981637, 9981929, 9982216, 9982498, 9982777, 9983052, 9983323, 9983589, 9983852,
       9984111, 9984367, 9984618, 9984866, 9985110, 9985351, 9985588, 9985821, 9986051, 9986278,
       9986501, 9986721, 9986938, 9987151, 9987361, 9987568, 9987772, 9987973, 9988171, 9988366,
       9988558, 9988747, 9988933, 9989117, 9989297, 9989475, 9989650, 9989822, 9989992, 9990159,
       9990324, 9990486, 9990646, 9990803, 9990957, 9991110, 9991260, 9991407, 9991553, 9991696,
       9991836, 9991975, 9992112, 9992246, 9992378, 9992508, 9992636, 9992762, 9992886, 9993008,
       9993129, 9993247, 9993363, 9993478, 9993590, 9993701, 9993810, 9993918, 9994024, 9994127,
       9994230, 9994330, 9994429, 9994527, 9994623, 9994717, 9994810, 9994901, 9994991, 9995079,
       9995166, 9995251, 9995335, 9995418, 9995499, 9995579, 9995658, 9995735, 9995811, 9995886,
       9995959, 9996032, 9996103, 9996173, 9996242, 9996309, 9996376, 9996441, 9996505, 9996569,
       9996631, 9996692, 9996752, 9996811, 9996869, 9996926, 9996982, 9997037, 9997091, 9997145,
       9997197, 9997249, 9997299, 9997349, 9997398, 9997446, 9997493, 9997539, 9997585, 9997630,
       9997674, 9997717, 9997759, 9997801, 9997842, 9997883, 9997922, 9997961, 9997999, 9998037,
       9998074, 9998110, 9998146, 9998181, 9998215, 9998249, 9998282, 9998315, 9998347, 9998378,
       9998409, 9998439, 9998469, 9998498, 9998527, 9998555, 9998583, 9998610, 9998637, 9998663,
       9998689, 9998714, 9998739, 9998763, 9998787, 9998811, 9998834, 9998856, 9998879, 9998901,
       9998922, 9998943, 9998964, 9998984, 9999004, 9999023, 9999043, 9999061, 9999080, 9999098,
       9999116, 9999133, 9999150, 9999167, 9999184, 9999200, 9999216, 9999231, 9999247, 9999262,
       9999277, 9999291, 9999305, 9999319, 9999333, 9999346, 9999359, 9999372, 9999385, 9999397,
       9999409, 9999421, 9999433, 9999445, 9999456, 9999467, 9999478, 9999488, 9999499, 9999509,
       9999519, 9999529, 9999539, 9999548, 9999557, 9999566, 9999575, 9999584, 9999593, 9999601,
       9999609, 9999617, 9999625, 9999633, 9999641, 9999648, 9999655, 9999663, 9999670, 9999677,
       9999683, 9999690, 9999696, 9999703, 9999709, 9999715, 9999721, 9999727, 9999733, 9999738,
       9999744, 9999749, 9999755, 9999760, 9999765, 9999770, 9999775, 9999780, 9999784, 9999789,
       9999793, 9999798, 9999802, 9999806, 9999811, 9999815, 9999819, 9999823, 9999826, 9999830,
       9999834, 9999837, 9999841, 9999844, 9999848, 9999851, 9999854, 9999857, 9999861, 9999864,
       9999867, 9999869, 9999872, 9999875, 9999878, 9999881, 9999883, 9999886, 9999888, 9999891,
       9999893, 9999895, 9999898, 9999900, 9999902, 9999904, 9999907, 9999909, 9999911, 9999913,
       9999915, 9999917, 9999918, 9999920, 9999922, 9999924, 9999925, 9999927, 9999929, 9999930,
       9999932, 9999933, 9999935, 9999936, 9999938, 9999939, 9999941, 9999942, 9999943, 9999945,
       9999946, 9999947, 9999948, 9999949, 9999951, 9999952, 9999953, 9999954, 9999955, 9999956,
       9999957, 9999958, 9999959, 9999960, 9999961, 9999962, 9999963, 9999964, 9999964, 9999965,
       9999966, 9999967, 9999968, 9999968, 9999969, 9999970, 9999971, 9999971, 9999972, 9999973,
       9999973, 9999974, 9999974, 9999975, 9999976, 9999976, 9999977, 9999977, 9999978, 9999978,
       9999979, 9999979, 9999980, 9999980, 9999981, 9999981, 9999982, 9999982, 9999983, 9999983,
       9999983, 9999984, 9999984, 9999985, 9999985, 9999985, 9999986, 9999986, 9999986, 9999987,
       9999987, 9999987, 9999988, 9999988, 9999988, 9999988, 9999989, 9999989, 9999989, 9999990,
       9999990, 9999990, 9999990, 9999991, 9999991, 9999991, 9999991, 9999991, 9999992, 9999992,
       9999992, 9999992, 9999992, 9999993, 9999993, 9999993, 9999993, 9999993, 9999994, 9999994,
       9999994, 9999994, 9999994, 9999994, 9999994, 9999995, 9999995, 9999995, 9999995, 9999995,
       9999995, 9999995, 9999995, 9999996, 9999996, 9999996, 9999996, 9999996, 9999996, 9999996,
       9999996, 9999996, 9999996, 9999997, 9999997, 9999997, 9999997, 9999997, 9999997, 9999997,
       9999997
    >>

\* norm.cdf(d) in 1/10^7, d in 1/10^6
NormCdf7(d6) ==
    LET a == Abs(d6)
        i == a \div 5000
        f == a % 5000
        p == IF a >= 5000000 THEN 10000000
             ELSE NormCdfTable[i + 1]
                  + ((NormCdfTable[i + 2] - NormCdfTable[i + 1]) * f) \div 5000
    IN  IF d6 >= 0 THEN p ELSE 10000000 - p

\* norm.pdf(d) in 1/10^7, d in 1/10^6: the slope of the table around d
NormPdf7(d6) ==
    LET a == Abs(d6)
        i == a \div 5000
    IN  IF a >= 5000000 THEN 0
        ELSE (NormCdfTable[i + 2] - NormCdfTable[i + 1]) * 200

\* x * n, n in 1/10^7 and x in cents, in 1/1000 cent
Frac7(x, n7) == x * (n7 \div 10000) + (x * (n7 % 10000)) \div 10000

\* round(x, ...): x rounded to the nearest multiple of unit, counted in units
Round(x, unit) ==
    IF x >= 0 THEN (x + unit \div 2) \div unit
    ELSE 0 - ((0 - x + unit \div 2) \div unit)

----------------------------------------------------------------------------
(* utils/options_pricing.py *)

\* math.sqrt(T) in 1/10^5, T = days / 365
SqrtT5(days) == ISqrt(days * 27397260)

\* <<d1, d2>> of the Black-Scholes formula, in 1/10^6 (|d1| capped at 9)
D1D2(S, K, days, r, sigma) ==
    LET \* r + sigma ** 2 / 2 in 1/10^6; sigma * (sigma \div 2) + .. is sigma ^ 2 \div 2
        a6 == (r * 10000 + sigma * (sigma \div 2) + ((sigma % 2) * sigma) \div 2) \div 100
    IN  With(Ln6(S, K) + (a6 * days) \div 365, LAMBDA num :
        With(sigma * SqrtT5(days), LAMBDA sst9 :
        With(IF Abs(num) * 10 >= 9 * (sst9 \div 100) THEN 9000000
             ELSE DivDec(Abs(num), sst9 \div 100, 7), LAMBDA q :
        LET d1 == IF num >= 0 THEN q ELSE 0 - q
        IN  <<d1, d1 - sst9 \div 1000>>)))

\* K * math.exp(-r * T) * n, n in 1/10^7, in 1/1000 cent
DiscountedStrike(K, days, r, n7) ==
    LET eps7 == 10000000 - ExpNeg7((r * days * 1000) \div 365)
    IN  With(Frac7(K, n7), LAMBDA x : x - ((x \div 1000) * eps7) \div 10000)

\* "if S <= 0 or K <= 0 or T <= 0 or sigma <= 0": the inputs the pricer refuses
Degenerate(S, K, days, sigma) == S <= 0 \/ K <= 0 \/ days <= 0 \/ sigma <= 0

\* a pricer that answers the intrinsic value for the inputs it refuses
BlackScholes_IntrinsicWhenRefused(S, K, days, r, sigma, option_type, d) ==
    IF Degenerate(S, K, days, sigma)
    THEN IF option_type = "call" THEN Max(0, S - K) * 1000 ELSE Max(0, K - S) * 1000
    ELSE IF option_type = "call"
    THEN Frac7(S, NormCdf7(d[1])) - DiscountedStrike(K, days, r, NormCdf7(d[2]))
    ELSE DiscountedStrike(K, days, r, NormCdf7(0 - d[2])) - Frac7(S, NormCdf7(0 - d[1]))

\* black_scholes(S, K, T, r, sigma, option_type), in 1/1000 cent; d is <<d1, d2>>
BlackScholes(S, K, days, r, sigma, option_type, d) ==
    IF Degenerate(S, K, days, sigma) THEN 0
    ELSE IF option_type = "call"
    THEN Frac7(S, NormCdf7(d[1])) - DiscountedStrike(K, days, r, NormCdf7(d[2]))
    ELSE DiscountedStrike(K, days, r, NormCdf7(0 - d[2])) - Frac7(S, NormCdf7(0 - d[1]))

\* calculate_greeks(S, K, T, r, sigma, option_type)['delta'], in 1/10^7
Delta(S, K, days, sigma, option_type, d) ==
    IF Degenerate(S, K, days, sigma) THEN 0
    ELSE IF option_type = "call" THEN NormCdf7(d[1])
    ELSE 0 - NormCdf7(0 - d[1])

\* the bundle calculate_greeks returns for inputs it refuses
ZeroGreeks == [ delta |-> 0, gamma |-> 0, theta |-> 0, vega |-> 0, rho |-> 0 ]

\* calculate_greeks(S, K, T, r, sigma, option_type): delta in 1/10^7, gamma in
\* 1/10^6 per dollar, theta (per day), vega and rho in 1/1000 cent
CalculateGreeks(S, K, days, r, sigma, option_type) ==
    IF Degenerate(S, K, days, sigma) THEN ZeroGreeks
    ELSE
    With(D1D2(S, K, days, r, sigma), LAMBDA d :
    With(sigma * SqrtT5(days), LAMBDA sst9 :
    With(Frac7(S, NormPdf7(d[1])), LAMBDA s_n_d1 :
    With(DiscountedStrike(K, days, r,
                          NormCdf7(IF option_type = "call" THEN d[2] ELSE 0 - d[2])),
         LAMBDA k_n_d2 :
    LET \* -(S * sigma * n_d1) / (2 * sqrt_t)
        term1 == 0 - DivDec(((s_n_d1 \div 100) * sigma) \div 100, 2 * SqrtT5(days), 5)
        \* r * K * math.exp(-r * T) * norm.cdf(d2), or of -d2 for a put
        term2 == ((k_n_d2 \div 100) * r) \div 100
    IN  [ delta |-> Delta(S, K, days, sigma, option_type, d),
          gamma |-> DivDec(DivDec(NormPdf7(d[1]), sst9 \div 1000, 4), S, 3),
          theta |-> Quot(IF option_type = "call" THEN term1 - term2 ELSE term1 + term2,
                         365),
          vega |-> ((s_n_d1 \div 100) * SqrtT5(days)) \div 100000,
          rho |-> IF option_type = "call" THEN (k_n_d2 * days) \div 36500
                  ELSE 0 - (k_n_d2 * days) \div 36500 ]))))

\* a ladder whose steps are 4% of the spot instead of 5%
RECURSIVE StrikesFrom_NarrowSteps(_, _)
StrikesFrom_NarrowSteps(underlying_price, i) ==
    IF i > 9 THEN << >>
    ELSE <<Round(underlying_price * (80 + 4 * (i - 1)), 100)>>
         \o StrikesFrom_NarrowSteps(underlying_price, i + 1)

\* strikes = [round(strike, 2) for strike in np.linspace(0.8 * S, 1.2 * S, 9)],
\* from the i-th on
RECURSIVE StrikesFrom(_, _)
StrikesFrom(underlying_price, i) ==
    IF i > 9 THEN << >>
    ELSE <<Round(underlying_price * (80 + 5 * (i - 1)), 100)>>
         \o StrikesFrom(underlying_price, i + 1)
Strikes(underlying_price) == StrikesFrom(underlying_price, 1)

\* one contract of the chain: strike and price in cents, delta in 1/10^4
Contract(S, K, days, r, sigma, option_type, d) ==
    [ strike |-> K,
      price |-> Round(BlackScholes(S, K, days, r, sigma, option_type, d), 1000),
      delta |-> Round(Delta(S, K, days, sigma, option_type, d), 1000) ]

\* the body of "for strike in strikes": the call and the put at the strike;
\* d1 and d2, which the code recomputes in each call of the pricer after it has
\* validated the inputs, are computed once
StrikeContracts(S, K, days, r, sigma, d) ==
    [ call |-> Contract(S, K, days, r, sigma, "call", d),
      put |-> Contract(S, K, days, r, sigma, "put", d) ]

RECURSIVE ContractsAt(_, _, _, _, _)
ContractsAt(S, strikes, days, r, sigma) ==
    IF strikes = << >> THEN << >>
    ELSE With(Head(strikes), LAMBDA strike :
         With(IF Degenerate(S, strike, days, sigma) THEN <<0, 0>>
              ELSE D1D2(S, strike, days, r, sigma), LAMBDA d :
              <<StrikeContracts(S, strike, days, r, sigma, d)>>))
         \o With(Tail(strikes), LAMBDA rest : ContractsAt(S, rest, days, r, sigma))

\* options_chain['calls'] and options_chain['puts'], in the order appended
RECURSIVE Calls(_)
Calls(contracts) ==
    IF contracts = << >> THEN << >>
    ELSE <<Head(contracts).call>> \o With(Tail(contracts), LAMBDA rest : Calls(rest))
RECURSIVE Puts(_)
Puts(contracts) ==
    IF contracts = << >> THEN << >>
    ELSE <<Head(contracts).put>> \o With(Tail(contracts), LAMBDA rest : Puts(rest))

\* the chain made of the contracts at each strike
ChainOf(contracts) == [ calls |-> Calls(contracts), puts |-> Puts(contracts) ]

\* simulate_option_chain(underlying_price, days_to_expiry, volatility, risk_free_rate)
SimulateOptionChain(underlying_price, days, volatility, risk_free_rate) ==
    With(Strikes(underlying_price), LAMBDA strikes :
    With(ContractsAt(underlying_price, strikes, days, risk_free_rate, volatility),
         LAMBDA contracts : ChainOf(contracts)))

\* black_scholes(S, K, T, r, sigma, option_type) as a caller gets it, in 1/1000 cent
BlackScholesPrice(S, K, days, r, sigma, option_type) ==
    With(IF Degenerate(S, K, days, sigma) THEN <<0, 0>> ELSE D1D2(S, K, days, r, sigma),
         LAMBDA d : BlackScholes(S, K, days, r, sigma, option_type, d))

\* vol_low, vol_high and vol_mid are held in 1/10^4 / VolScale, so that halving
\* the interval is exact, as it is in binary floating point
VolScale == 32768
\* vol_low = 0.001 and vol_high = 5.0
VolLow == 10 * VolScale
VolHigh == 50000 * VolScale

\* (vol_low + vol_high) / 2
VolMid(vol_low, vol_high) == vol_low + (vol_high - vol_low) \div 2

\* intrinsic = max(0, S - K), for a put max(0, K - S), in 1/1000 cent
Intrinsic(S, K, option_type) ==
    IF option_type = "call" THEN Max(0, S - K) * 1000 ELSE Max(0, K - S) * 1000

\* the price no option exceeds: S for a call, K for a put, in 1/1000 cent
PriceCap(S, K, option_type) == IF option_type = "call" THEN S * 1000 ELSE K * 1000

\* a test that also refuses a price equal to the intrinsic value
BelowIntrinsic_OrEqual(market_price, intrinsic) == market_price <= intrinsic

\* "if market_price < intrinsic"
BelowIntrinsic(market_price, intrinsic) == market_price < intrinsic

\* a loop that begins one iteration too many
LoopContinues_OneMore(i, max_iterations) == i <= max_iterations

\* "for i in range(max_iterations)": the iteration after i of them begins
LoopContinues(i, max_iterations) == i < max_iterations

\* calculate_iv(market_price, S, K, T, r, option_type, precision, max_iterations)
\* when it reaches the loop, or has returned before it; sigma is the volatility
\* market_price was computed with, 0 when it was not computed
EnterSolver(market_price, S, K, days, option_type, precision, max_iterations, sigma) ==
    LET call == [ pc |-> "loop", market_price |-> market_price, S |-> S, K |-> K,
                  days |-> days, option_type |-> option_type, precision |-> precision,
                  max_iterations |-> max_iterations, sigma |-> sigma,
                  vol_low |-> VolLow, vol_high |-> VolHigh,
                  evaluations |-> 0, result |-> 0, by |-> "" ]
    IN  IF BelowIntrinsic(market_price, Intrinsic(S, K, option_type))
        THEN [ call EXCEPT !.pc = "returned", !.result = 0, !.by = "boundary" ]
        ELSE IF market_price > PriceCap(S, K, option_type)
        THEN [ call EXCEPT !.pc = "returned", !.result = VolHigh, !.by = "boundary" ]
        ELSE call

\* one iteration of the bisection, vol_mid and price computed; the pricer reads
\* the volatility in 1/10^4
Bisect(s, vol_mid, price) ==
    IF Abs(price - s.market_price) < s.precision
    THEN [ s EXCEPT !.pc = "returned", !.result = vol_mid, !.by = "converged",
                    !.evaluations = @ + 1 ]
    ELSE IF price < s.market_price
    THEN [ s EXCEPT !.vol_low = vol_mid, !.evaluations = @ + 1 ]
    ELSE [ s EXCEPT !.vol_high = vol_mid, !.evaluations = @ + 1 ]

----------------------------------------------------------------------------
(* PutSellingStrategy *)

days_to_expiry == 30

\* strike_price = current_price * (1 - put_delta)
StrikePrice(current_price, put_delta) ==
    (Dollars(current_price) * (100 - put_delta)) \div 100

\* option_premium = current_price * implied_vol * time_factor * put_delta
OptionPremium(current_price, put_delta) ==
    (Dollars(current_price) * 20 * put_delta) \div 10000

\* max_loss_per_contract = (strike_price - option_premium) * 100
MaxLossPerContract(strike_price, option_premium) ==
    (strike_price - option_premium) * 100

\* num_contracts = max(1, math.floor(max_risk / max_loss_per_contract)),
\* max_risk = portfolio_value * risk_percentage
NumContracts(portfolio_value, risk_percentage, max_loss_per_contract) ==
    Max(1, Floor(portfolio_value * risk_percentage, 100 * max_loss_per_contract))

MarginRequirement_NoMultiplier(strike_price, num_contracts) ==
    strike_price * num_contracts

\* margin_requirement = strike_price * num_contracts * 100
MarginRequirement(strike_price, num_contracts) == strike_price * num_contracts * 100

\* IronCondorStrategy.__init__
CondorInit ==
    [ close_hist |-> << >>, active_options |-> None, option_type |-> "NONE",
      entry_date |-> None, expiry_date |-> None,
      short_put_strike |-> 0, long_put_strike |-> 0,
      short_call_strike |-> 0, long_call_strike |-> 0,
      max_profit |-> 0, max_loss |-> 0, entry_credit |-> 0,
      hv_20 |-> 0, iv_estimate |-> 0, iv_rank |-> 0 ]

\* no function has been called on its own; calculate_iv is not running
NoCall == [ fn |-> "none" ]
SolverIdle == [ pc |-> "idle" ]

\* PutSellingStrategy.__init__
PutInit ==
    [ active_option |-> None, option_type |-> "NONE", entry_price |-> 0,
      strike_price |-> 0, expiry_date |-> None, entry_date |-> None,
      num_contracts |-> 0, trades |-> << >>, total_premium |-> 0,
      trade_count |-> 0, winning_trades |-> 0, losing_trades |-> 0 ]

\* a record whose total_profit is the profit of one contract share
RecordTrade_PerShare(s, exit_date, profit, profit_pct, days_held) ==
    LET trade_info ==
            [ entry_date |-> s.entry_date, exit_date |-> exit_date,
              days_held |-> days_held, strike |-> s.strike_price,
              premium |-> s.entry_price, profit |-> profit,
              profit_pct |-> <<profit_pct[1] * 100, profit_pct[2]>>,
              contracts |-> s.num_contracts,
              total_profit |-> profit * s.num_contracts ]
    IN  [ s EXCEPT !.trades = Append(@, trade_info),
                   !.trade_count = @ + 1,
                   !.winning_trades = IF profit > 0 THEN @ + 1 ELSE @,
                   !.losing_trades = IF profit > 0 THEN @ ELSE @ + 1 ]

\* record_trade(exit_date, profit, profit_pct, days_held) applied to the fields s;
\* profit_pct is the pair <<numerator, denominator>>
RecordTrade(s, exit_date, profit, profit_pct, days_held) ==
    LET trade_info ==
            [ entry_date |-> s.entry_date, exit_date |-> exit_date,
              days_held |-> days_held, strike |-> s.strike_price,
              premium |-> s.entry_price, profit |-> profit,
              profit_pct |-> <<profit_pct[1] * 100, profit_pct[2]>>,
              contracts |-> s.num_contracts,
              total_profit |-> profit * s.num_contracts * 100 ]
    IN  [ s EXCEPT !.trades = Append(@, trade_info),
                   !.trade_count = @ + 1,
                   !.winning_trades = IF profit > 0 THEN @ + 1 ELSE @,
                   !.losing_trades = IF profit > 0 THEN @ ELSE @ + 1 ]

ResetPosition_Forgotten(s) == s

\* "Reset position tracking"
ResetPosition(s) == [ s EXCEPT !.active_option = None, !.option_type = "NONE" ]

\* time_value = vol_factor * time_factor * (current_price * 0.05), times days_to_expiry
TimeValueTimesDTE(current_price, days_left) ==
    (Dollars(current_price) * 8 * 5 * days_left) \div 1000

ProfitTargetHit_Strict(entry_price, profitTimesDTE, profit_target_pct) ==
    profitTimesDTE * 100 > profit_target_pct * entry_price * days_to_expiry

\* profit_pct >= self.params.profit_target_pct, with
\* profit = entry_price - (intrinsic + time_value), profit_pct = profit / entry_price
ProfitTargetHit(entry_price, profitTimesDTE, profit_target_pct) ==
    profitTimesDTE * 100 >= profit_target_pct * entry_price * days_to_expiry

ExpiredWorthless_AtOrAbove(price, strike_price) == price >= strike_price

\* "if current_price > self.strike_price": the put expired worthless
ExpiredWorthless(price, strike_price) == price > strike_price

\* a test that lets the option live through its expiry date
Expired_AfterExpiryDate(days_left) == days_left < 0

\* "if days_left <= 0": the option expired
Expired(days_left) == days_left <= 0

\* manage_active_position(current_date, current_price): <<fields, cash, log>> after it
ManageActivePosition(s, c, current_date, current_price) ==
    IF s.option_type # "SHORT_PUT" THEN <<s, c, << >> >>
    ELSE
    LET days_left == s.expiry_date - current_date
        price == Dollars(current_price)
    IN  IF Expired(days_left)
        THEN IF ExpiredWorthless(price, s.strike_price)
             THEN LET profit == s.entry_price * s.num_contracts * 100
                      trade_profit == s.entry_price
                  IN  << ResetPosition(RecordTrade(s, current_date, trade_profit,
                                                   <<1, 1>>, days_to_expiry)),
                         c + profit,
                         <<"Put option expired worthless">> >>
             ELSE LET loss == s.strike_price - price
                      net_profit == (s.entry_price - loss) * s.num_contracts * 100
                      trade_profit == s.entry_price - loss
                  IN  << ResetPosition(RecordTrade(s, current_date, trade_profit,
                                                   <<trade_profit, s.entry_price>>,
                                                   days_to_expiry)),
                         c + net_profit,
                         <<"Put assigned">> >>
        ELSE LET intrinsic == Max(0, s.strike_price - price)
                 \* days_to_expiry * (entry_price - current_option_value)
                 profitTimesDTE == (s.entry_price - intrinsic) * days_to_expiry
                                   - TimeValueTimesDTE(current_price, days_left)
             IN  IF ProfitTargetHit(s.entry_price, profitTimesDTE, params.profit_target_pct)
                 THEN LET profit == profitTimesDTE \div days_to_expiry
                          net_profit == profit * s.num_contracts * 100
                          days_held == current_date - s.entry_date
                      IN  << ResetPosition(RecordTrade(s, current_date, profit,
                                                       <<profit, s.entry_price>>,
                                                       days_held)),
                             c + net_profit,
                             <<"Closing put at profit target">> >>
                 ELSE <<s, c, << >> >>

Uptrend_AtOrAbove(current_price, ma) == current_price >= ma

\* "if current_price > self.sma[0]": the uptrend filter
Uptrend(current_price, ma) == current_price > ma

MarginCovered_Unchecked(margin_requirement, c) == TRUE

\* "if margin_requirement <= cash"
MarginCovered(margin_requirement, c) == margin_requirement <= c

\* consider_new_position(current_price): <<fields, cash, log>> after it
ConsiderNewPosition(s, c, current_date, current_price, ma) ==
    IF ~Uptrend(current_price, ma) THEN <<s, c, << >> >>
    ELSE
    LET \* self.broker.getvalue(): the strategy places no order, so the portfolio
        \* value the broker reports is its cash
        portfolio_value == c
        strike_price == StrikePrice(current_price, params.put_delta)
        option_premium == OptionPremium(current_price, params.put_delta)
        max_loss_per_contract == MaxLossPerContract(strike_price, option_premium)
        num_contracts == NumContracts(portfolio_value, params.risk_percentage,
                                      max_loss_per_contract)
        expiry_date == current_date + days_to_expiry
        margin_requirement == MarginRequirement(strike_price, num_contracts)
    IN  IF MarginCovered(margin_requirement, c)
        THEN << [ s EXCEPT !.total_premium = @ + option_premium * num_contracts,
                           !.active_option = 1,
                           !.option_type = "SHORT_PUT",
                           !.entry_price = option_premium,
                           !.strike_price = strike_price,
                           !.expiry_date = expiry_date,
                           !.entry_date = current_date,
                           !.num_contracts = num_contracts ],
                c,
                <<"SELL">> >>
        ELSE <<s, c, <<"SELL", "Insufficient cash for margin requirement">> >>

\* next(): one bar (current_date, current_price) with the moving average ma
PutStep(current_date, current_price, ma) ==
    LET r == IF put.active_option # None
             THEN ManageActivePosition(put, cash, current_date, current_price)
             ELSE ConsiderNewPosition(put, cash, current_date, current_price, ma)
    IN  /\ put' = r[1]
        /\ cash' = r[2]
        /\ log' = r[3]
        /\ today' = current_date
        /\ data' = current_price
        /\ sma' = ma
        /\ UNCHANGED <<params, condor, atr, bars, raised, lib, solver>>

\* the driver feeds the bars in chronological order
PutNext ==
    \E gap \in Gaps, current_price \in Prices, ma \in SmaValues :
        /\ today + gap <= MaxDay
        /\ Len(put.trades) < MaxTrades
        /\ PutStep(today + gap, current_price, ma)

InitPut ==
    /\ params \in [ put_delta : PutDeltas, risk_percentage : RiskPercentages,
                    profit_target_pct : {50} ]
    /\ put = PutInit
    /\ cash \in { Dollars(x) : x \in StartCash }
    /\ today = 0
    /\ data = 0
    /\ sma = 0
    /\ log = << >>
    /\ condor = CondorInit
    /\ atr = [ value |-> 0, sum20 |-> 0 ]
    /\ bars = 0
    /\ raised = ""
    /\ lib = NoCall
    /\ solver = SolverIdle

SpecPut == InitPut /\ [][PutNext]_vars

----------------------------------------------------------------------------
(* datetime.date: a date is its day number, 0 = 1970-01-01 *)

\* the year, month and day of the date z
CivilFromDays(z) ==
    LET z1 == z + 719468
        era == z1 \div 146097
        doe == z1 % 146097
        yoe == (doe - doe \div 1460 + doe \div 36524 - doe \div 146096) \div 365
        doy == doe - (365 * yoe + yoe \div 4 - yoe \div 100)
        mp == (5 * doy + 2) \div 153
        d == doy - (153 * mp + 2) \div 5 + 1
        m == IF mp < 10 THEN mp + 3 ELSE mp - 9
    IN  [ year |-> yoe + era * 400 + (IF m <= 2 THEN 1 ELSE 0), month |-> m, day |-> d ]

\* date(year, month, day)
Date(year, month, day) ==
    LET y == IF month <= 2 THEN year - 1 ELSE year
        era == y \div 400
        yoe == y % 400
        mp == IF month > 2 THEN month - 3 ELSE month + 9
        doy == (153 * mp + 2) \div 5 + day - 1
        doe == yoe * 365 + yoe \div 4 - yoe \div 100 + doy
    IN  era * 146097 + doe - 719468

\* date.weekday(): Monday is 0
Weekday(z) == (z + 3) % 7

\* the date of the bar before the first bar of an iron-condor run
StartDate == Date(2023, 1, 2)

----------------------------------------------------------------------------
(* IronCondorStrategy.  Prices, strikes, credits and the broker's value are *)
(* in cents; deltas, volatilities and the IV rank are in 1/10000; widths,   *)
(* risk_percentage, profit_target_pct and loss_stop_pct are percentages.    *)
(* The line that logs the market conditions of every bar is not modelled.   *)

\* the default params of the class; call_delta, profit_target_pct are set per run
DefaultParams ==
    [ put_delta |-> 3000, put_width |-> 10, call_delta |-> 3000, call_width |-> 10,
      days_to_expiry |-> 30, risk_percentage |-> 2, exit_days_left |-> 5,
      profit_target_pct |-> 50, loss_stop_pct |-> 200, iv_rank_min |-> 3000 ]

AppendClose_EvictNewest(close_hist, current_price) ==
    LET h == Append(close_hist, current_price)
    IN  IF Len(h) > 252 THEN SubSeq(h, 1, 252) ELSE h

\* self.close_hist.append(current_price), keeping one year of data
AppendClose(close_hist, current_price) ==
    LET h == Append(close_hist, current_price)
    IN  IF Len(h) > 252 THEN Tail(h) ELSE h

RECURSIVE SumSeq(_)
SumSeq(q) == IF q = << >> THEN 0 ELSE Head(q) + SumSeq(Tail(q))

\* calculate_historical_volatility(): hv_20, for len(close_hist) >= 20
\* "for i in range(1, 20): returns.append(math.log(close_hist[-i] / close_hist[-(i+1)]))",
\* from i on, in 1/10^6
RECURSIVE Returns(_, _)
Returns(close_hist, i) ==
    IF i >= 20 THEN << >>
    ELSE <<Ln6(close_hist[Len(close_hist) + 1 - i], close_hist[Len(close_hist) - i])>>
         \o Returns(close_hist, i + 1)

\* sum((r - mean_return) ** 2 for r in returns), in 1/10^10
RECURSIVE SumSquares(_, _)
SumSquares(returns, mean_return) ==
    IF returns = << >> THEN 0
    ELSE Quot(Head(returns) - mean_return, 10) * Quot(Head(returns) - mean_return, 10)
         + SumSquares(Tail(returns), mean_return)

\* calculate_historical_volatility(): hv_20, for len(close_hist) >= 20
CalculateHistoricalVolatility(close_hist) ==
    With(Returns(close_hist, 1), LAMBDA returns :
    With(Quot(SumSeq(returns), Len(returns)), LAMBDA mean_return :
    LET variance == SumSquares(returns, mean_return) \div Len(returns)
        daily_vol == ISqrt(variance)
    IN  \* daily_vol * math.sqrt(252)
        (daily_vol * 158745) \div 100000))

\* iv_rank = min(1.0, max(0.0, atr[0] / (2 * avg_atr))), avg_atr = sum20 / 20
IvRank(a) == Min(10000, Max(0, (a.value * 100000) \div a.sum20))

\* an estimator that also counts the bars of an open position in its max_loss
EstimateImpliedVolatility_TouchesPosition(s, a, current_price) ==
    IF Len(s.close_hist) < 20 THEN <<s, "">>
    ELSE
    LET atr_vol == (a.value * 100000) \div current_price
        iv_estimate == (atr_vol * 79373) \div 100000 + s.hv_20 \div 2
        s1 == [ s EXCEPT !.iv_estimate = iv_estimate,
                         !.max_loss = IF s.active_options # None THEN @ + 1 ELSE @ ]
    IN  IF Len(s.close_hist) >= 252
        THEN IF a.sum20 = 0
             THEN <<s1, "ZeroDivisionError in estimate_implied_volatility">>
             ELSE << [ s1 EXCEPT !.iv_rank = IvRank(a) ], "" >>
        ELSE <<s1, "">>

\* estimate_implied_volatility(): <<fields, exception>> after it
EstimateImpliedVolatility(s, a, current_price) ==
    IF Len(s.close_hist) < 20 THEN <<s, "">>
    ELSE
    LET atr_vol == (a.value * 100000) \div current_price
        \* atr_vol * math.sqrt(252) * 0.5 + hv_20 * 0.5
        iv_estimate == (atr_vol * 79373) \div 100000 + s.hv_20 \div 2
        s1 == [ s EXCEPT !.iv_estimate = iv_estimate ]
    IN  IF Len(s.close_hist) >= 252
        THEN IF a.sum20 = 0
             THEN <<s1, "ZeroDivisionError in estimate_implied_volatility">>
             ELSE << [ s1 EXCEPT !.iv_rank = IvRank(a) ], "" >>
        ELSE <<s1, "">>

\* get_next_monthly_expiration(current_date): the third Friday of the next month
GetNextMonthlyExpiration(current_date) ==
    LET c == CivilFromDays(current_date)
        year == IF c.month = 12 THEN c.year + 1 ELSE c.year
        month == IF c.month = 12 THEN 1 ELSE c.month + 1
        first_day == Date(year, month, 1)
        days_to_add == (7 + 4 - Weekday(first_day)) % 7
        first_friday == first_day + days_to_add
    IN  first_friday + 14

\* a search that lets a later option at the same distance win
RECURSIVE FindClosestFrom_LaterWins(_, _, _, _)
FindClosestFrom_LaterWins(options_list, target, i, closest) ==
    IF i > Len(options_list) THEN options_list[closest]
    ELSE IF Abs(options_list[i].strike * 100 - target)
              <= Abs(options_list[closest].strike * 100 - target)
         THEN FindClosestFrom_LaterWins(options_list, target, i + 1, i)
         ELSE FindClosestFrom_LaterWins(options_list, target, i + 1, closest)

\* find_closest_option(options_list, 'strike', target_value), target in 1/100 cent
RECURSIVE FindClosestFrom(_, _, _, _)
FindClosestFrom(options_list, target, i, closest) ==
    IF i > Len(options_list) THEN options_list[closest]
    ELSE IF Abs(options_list[i].strike * 100 - target)
              < Abs(options_list[closest].strike * 100 - target)
         THEN FindClosestFrom(options_list, target, i + 1, i)
         ELSE FindClosestFrom(options_list, target, i + 1, closest)
\* None where a contract is expected
NoOption == [ strike |-> None ]

FindClosestOption(options_list, target) ==
    IF options_list = << >> THEN NoOption  \* "if not options_list: return None"
    ELSE FindClosestFrom(options_list, target, 1, 1)

\* "for option in chain: if abs(option['delta']) <= limit: ...; break":
\* the index of the first such option, 0 if there is none
FirstWithinDelta(options_list, limit) ==
    IF \E i \in 1..Len(options_list) : Abs(options_list[i].delta) <= limit
    THEN CHOOSE i \in 1..Len(options_list) :
            /\ Abs(options_list[i].delta) <= limit
            /\ \A j \in 1..(i - 1) : Abs(options_list[j].delta) > limit
    ELSE 0

IvRankAccepted_Always(iv_rank, iv_rank_min) == TRUE

\* "if self.iv_rank < self.params.iv_rank_min: return"
IvRankAccepted(iv_rank, iv_rank_min) == ~(iv_rank < iv_rank_min)

\* return_on_risk = credit / margin_requirement if margin_requirement > 0 else 0;
\* "if return_on_risk < 0.15: return"
ReturnOnRiskAccepted(credit, margin_requirement) ==
    IF margin_requirement > 0 THEN ~(credit * 100 < 15 * margin_requirement)
    ELSE FALSE

\* the expiry of a position opened on current_date
ExpiryDate(current_date) ==
    LET expiry_date == GetNextMonthlyExpiration(current_date)
    IN  IF expiry_date - current_date < params.days_to_expiry
        THEN GetNextMonthlyExpiration(current_date + 35)
        ELSE expiry_date

\* consider_new_iron_condor(current_date, current_price): <<fields, log, exception>>
ConsiderNewIronCondor(s, portfolio_value, current_date, current_price) ==
    IF ~IvRankAccepted(s.iv_rank, params.iv_rank_min) THEN <<s, << >>, "">>
    ELSE
    With(ExpiryDate(current_date), LAMBDA expiry_date :
    With(SimulateOptionChain(current_price, expiry_date - current_date,
                             s.iv_estimate, 200), LAMBDA options_chain :
    With(FirstWithinDelta(options_chain.puts, params.put_delta), LAMBDA short_put_index :
    With(FirstWithinDelta(options_chain.calls, params.call_delta), LAMBDA short_call_index :
        IF short_put_index = 0 \/ short_call_index = 0 THEN <<s, << >>, "">>
        ELSE
        With(options_chain.puts[short_put_index], LAMBDA short_put :
        With(FindClosestOption(options_chain.puts,
                               short_put.strike * (100 - params.put_width)),
             LAMBDA long_put :
        With(options_chain.calls[short_call_index], LAMBDA short_call :
        With(FindClosestOption(options_chain.calls,
                               short_call.strike * (100 + params.call_width)),
             LAMBDA long_call :
        IF long_put = NoOption \/ long_call = NoOption
        THEN \* long_put['price'] of None
             <<s, << >>, "TypeError in consider_new_iron_condor">>
        ELSE
        LET credit == short_put.price - long_put.price + short_call.price - long_call.price
            put_spread_width == short_put.strike - long_put.strike
            call_spread_width == long_call.strike - short_call.strike
            max_risk == Max(put_spread_width, call_spread_width) - credit
            margin_requirement == Max(put_spread_width, call_spread_width)
        IN  IF ~ReturnOnRiskAccepted(credit, margin_requirement) THEN <<s, << >>, "">>
            ELSE IF max_risk = 0
            THEN \* max_risk_dollars / (max_risk * 100)
                 <<s, << >>, "ZeroDivisionError in consider_new_iron_condor">>
            ELSE
            LET \* math.floor(max_risk_dollars / (max_risk * 100)), at least 1
                num_spreads == Max(1, Floor(portfolio_value * params.risk_percentage,
                                            max_risk * 10000))
            IN  << [ s EXCEPT !.active_options = 1,
                              !.option_type = "IRON_CONDOR",
                              !.entry_date = current_date,
                              !.expiry_date = expiry_date,
                              !.short_put_strike = short_put.strike,
                              !.long_put_strike = long_put.strike,
                              !.short_call_strike = short_call.strike,
                              !.long_call_strike = long_call.strike,
                              !.max_profit = credit * num_spreads * 100,
                              !.max_loss = max_risk * num_spreads * 100,
                              !.entry_credit = credit ],
                   << [ line |-> "Opening Iron Condor", credit |-> credit,
                        max_risk |-> max_risk, contracts |-> num_spreads ] >>,
                   "" >>))))))))

\* a close that also forgets the volatility estimates
CloseIronCondor_ForgetsEstimates(s) ==
    [ s EXCEPT !.active_options = None, !.option_type = "NONE",
               !.entry_date = None, !.expiry_date = None,
               !.short_put_strike = 0, !.long_put_strike = 0,
               !.short_call_strike = 0, !.long_call_strike = 0,
               !.max_profit = 0, !.max_loss = 0, !.entry_credit = 0,
               !.hv_20 = 0, !.iv_estimate = 0, !.iv_rank = 0 ]

\* close_iron_condor()
CloseIronCondor(s) ==
    [ s EXCEPT !.active_options = None, !.option_type = "NONE",
               !.entry_date = None, !.expiry_date = None,
               !.short_put_strike = 0, !.long_put_strike = 0,
               !.short_call_strike = 0, !.long_call_strike = 0,
               !.max_profit = 0, !.max_loss = 0, !.entry_credit = 0 ]

\* profit_pct >= profit_target_pct, profit_pct = current_profit / max_profit
\* if max_profit > 0 else 0
ProfitTargetReached(current_profit, max_profit, profit_target_pct) ==
    IF max_profit > 0
    THEN IF current_profit >= 0
         THEN max_profit <= (current_profit * 100) \div profit_target_pct
         ELSE FALSE
    ELSE profit_target_pct <= 0

\* current_profit < 0 and abs(current_profit) > max_profit * loss_stop_pct
StopLossTriggered(current_profit, max_profit, loss_stop_pct) ==
    /\ current_profit < 0
    /\ max_profit < (Abs(current_profit) * 100 + loss_stop_pct - 1) \div loss_stop_pct

ExitReason_ProfitFirst(days_left, target_reached, stop_triggered) ==
    IF target_reached THEN "profit target reached"
    ELSE IF days_left <= params.exit_days_left THEN "approaching expiration"
    ELSE IF stop_triggered THEN "stop loss triggered"
    ELSE ""

\* the if / elif / elif chain of manage_iron_condor: exit_reason, "" to stay
ExitReason(days_left, target_reached, stop_triggered) ==
    IF days_left <= params.exit_days_left THEN "approaching expiration"
    ELSE IF target_reached THEN "profit target reached"
    ELSE IF stop_triggered THEN "stop loss triggered"
    ELSE ""

\* manage_iron_condor(current_date, current_price): <<fields, log, exception>>
ManageIronCondor(s, current_date, current_price) ==
    LET days_left == s.expiry_date - current_date
    IN
    With(SimulateOptionChain(current_price, Max(1, days_left), s.iv_estimate, 200),
         LAMBDA options_chain :
    LET short_put_option == FindClosestOption(options_chain.puts, s.short_put_strike * 100)
        long_put_option == FindClosestOption(options_chain.puts, s.long_put_strike * 100)
        short_call_option == FindClosestOption(options_chain.calls, s.short_call_strike * 100)
        long_call_option == FindClosestOption(options_chain.calls, s.long_call_strike * 100)
        absent == NoOption \in { short_put_option, long_put_option,
                             short_call_option, long_call_option }
        current_value == 0 - short_put_option.price + long_put_option.price
                           - short_call_option.price + long_call_option.price
    IN
    IF absent
    THEN \* short_put_option['price'] of None
         <<s, << >>, "TypeError in manage_iron_condor">>
    ELSE
    With(s.entry_credit - current_value, LAMBDA current_profit :
    LET target_reached == ProfitTargetReached(current_profit, s.max_profit,
                                              params.profit_target_pct)
        stop_triggered == StopLossTriggered(current_profit, s.max_profit,
                                            params.loss_stop_pct)
        exit_reason == ExitReason(days_left, target_reached, stop_triggered)
        status == [ line |-> "Iron Condor", days_left |-> days_left,
                    current_profit |-> current_profit, max_profit |-> s.max_profit ]
    IN  IF exit_reason # ""
        THEN << CloseIronCondor(s),
                <<status, [ line |-> "Closing Iron Condor", reason |-> exit_reason ]>>,
                "" >>
        ELSE <<s, <<status>>, "">>))

\* a step that decides on the estimates of the bar before and updates them after
IronCondorNext_DecidesFirst(s, portfolio_value, current_date, current_price, a) ==
    With(IF s.active_options # None
         THEN ManageIronCondor(s, current_date, current_price)
         ELSE ConsiderNewIronCondor(s, portfolio_value, current_date, current_price),
         LAMBDA r :
    With(AppendClose(r[1].close_hist, current_price), LAMBDA close_hist :
    With(IF Len(close_hist) >= 20
         THEN [ r[1] EXCEPT !.close_hist = close_hist,
                            !.hv_20 = CalculateHistoricalVolatility(close_hist) ]
         ELSE [ r[1] EXCEPT !.close_hist = close_hist ], LAMBDA s1 :
    With(EstimateImpliedVolatility(s1, a, current_price), LAMBDA e :
        IF r[3] # "" THEN r ELSE <<e[1], r[2], e[2]>>))))

\* next() on the fields s for one bar (current_date, current_price) with the ATR
\* readings a: <<fields, log, exception>> after it
IronCondorNext(s, portfolio_value, current_date, current_price, a) ==
    With(AppendClose(s.close_hist, current_price), LAMBDA close_hist :
    With(IF Len(close_hist) >= 20
         THEN [ s EXCEPT !.close_hist = close_hist,
                         !.hv_20 = CalculateHistoricalVolatility(close_hist) ]
         ELSE [ s EXCEPT !.close_hist = close_hist ], LAMBDA s1 :
    With(EstimateImpliedVolatility(s1, a, current_price), LAMBDA e :
        IF e[2] # "" THEN <<e[1], << >>, e[2]>>
        ELSE IF e[1].active_options # None
        THEN ManageIronCondor(e[1], current_date, current_price)
        ELSE ConsiderNewIronCondor(e[1], portfolio_value, current_date, current_price))))

\* the state after the bar, r the outcome of next()
CondorBar(r, current_date, current_price, a) ==
    /\ condor' = r[1]
    /\ log' = r[2]
    /\ raised' = r[3]
    /\ today' = current_date
    /\ data' = current_price
    /\ atr' = a
    /\ bars' = bars + 1
    /\ UNCHANGED <<params, cash, put, sma, lib, solver>>

\* one bar of the back-test
CondorStep(current_date, current_price, a) ==
    \E r \in { IronCondorNext(condor, cash, current_date, current_price, a) } :
        CondorBar(r, current_date, current_price, a)

\* the driver feeds the bars in chronological order until an exception escapes
CondorNext ==
    \E gap \in CondorGaps, current_price \in CondorPrices, a \in AtrReadings :
        /\ raised = ""
        /\ bars < MaxBars
        /\ CondorStep(today + gap, current_price, a)

\* the strategy after `warm` bars at BasePrice with constant ATR readings
Warmed(warm) ==
    [ CondorInit EXCEPT !.close_hist = SubSeq([ i \in 1..252 |-> BasePrice ], 1, warm),
                        !.iv_estimate = IF warm >= 20
                                        THEN (((WarmAtr.value * 100000) \div BasePrice)
                                              * 79373) \div 100000
                                        ELSE 0 ]

InitCondor ==
    /\ \E run \in CondorRuns :
          /\ params = [ DefaultParams EXCEPT !.call_delta = run.call_delta,
                                             !.profit_target_pct = run.profit_target_pct ]
          /\ cash = run.cash
    /\ \E warm \in WarmBars :
          /\ condor = Warmed(warm)
          /\ data = IF warm = 0 THEN 0 ELSE BasePrice
          /\ atr = IF warm = 0 THEN [ value |-> 0, sum20 |-> 0 ] ELSE WarmAtr
    /\ today = StartDate
    /\ bars = 0
    /\ raised = ""
    /\ log = << >>
    /\ put = PutInit
    /\ sma = 0
    /\ lib = NoCall
    /\ solver = SolverIdle

SpecIC == InitCondor /\ [][CondorNext]_vars

\* the strategy class the run adds to cerebro: main.py adds PutSellingStrategy,
\* run_iron_condor.py adds IronCondorStrategy; the params tell which
Strategy ==
    IF "iv_rank_min" \in DOMAIN params THEN "IronCondorStrategy" ELSE "PutSellingStrategy"

\* one bar of a back-test of either strategy
BacktestNext ==
    \/ Strategy = "PutSellingStrategy" /\ PutNext
    \/ Strategy = "IronCondorStrategy" /\ CondorNext

InitBacktest == InitPut \/ InitCondor

SpecBacktest == InitBacktest /\ [][BacktestNext]_vars

----------------------------------------------------------------------------
(* The strike selection of IronCondorStrategy, call by call *)

\* spots in cents and volatility estimates in 1/10^4 of the bars of an entry
SelectSpots == {1000, 1100, 5000, 10000}
SelectVols == {793, 2410, 5556, 10000}
\* the delta targets of the runs: --put-delta and --call-delta
SelectPutDeltas == {500, 3000}
SelectCallDeltas == {3000, 5000, 10000}
\* the broker's value, in cents
SelectValue == 100000 * 100

\* the chain whose lists are searched: spot 10.00, strikes 8.00, 8.50, ..., 12.00
SearchChain == SimulateOptionChain(1000, 45, 3000, 200)
SearchLists == { << >>, SearchChain.puts, SearchChain.calls }
\* target values from 7.00 to 13.00 by 0.25, in 1/100 cent
SearchTargets == { k * 2500 : k \in 28..52 }

\* consider_new_iron_condor(today, current_price) of a strategy that has seen a
\* year of bars and estimates iv_estimate, with an IV rank of 0.5
EntryCall(current_price, iv_estimate) ==
    /\ lib = NoCall
    /\ \E r \in { ConsiderNewIronCondor([ Warmed(251) EXCEPT !.iv_estimate = iv_estimate,
                                                            !.iv_rank = 5000 ],
                                          SelectValue, today, current_price) } :
           lib' = [ fn |-> "consider_new_iron_condor", current_price |-> current_price,
                    iv_estimate |-> iv_estimate,
                    result |-> r[1], log |-> r[2], raised |-> r[3] ]
    /\ UNCHANGED <<strategyVars, solver>>

\* find_closest_option(options_list, 'strike', target_value)
ClosestCall(options_list, target_value) ==
    /\ lib = NoCall
    /\ lib' = [ fn |-> "find_closest_option", options_list |-> options_list,
                target_value |-> target_value,
                result |-> FindClosestOption(options_list, target_value) ]
    /\ UNCHANGED <<strategyVars, solver>>

SelectNext ==
    \/ \E current_price \in SelectSpots, iv_estimate \in SelectVols :
          EntryCall(current_price, iv_estimate)
    \/ \E options_list \in SearchLists, target_value \in SearchTargets :
          ClosestCall(options_list, target_value)

\* an idle strategy on 2023-01-03, with the delta targets of the run
InitSelect ==
    /\ \E put_delta \in SelectPutDeltas, call_delta \in SelectCallDeltas :
          params = [ DefaultParams EXCEPT !.put_delta = put_delta,
                                         !.call_delta = call_delta ]
    /\ put = PutInit
    /\ condor = Warmed(251)
    /\ cash = SelectValue
    /\ today = StartDate + 1
    /\ data = BasePrice
    /\ sma = 0
    /\ atr = WarmAtr
    /\ bars = 0
    /\ raised = ""
    /\ log = << >>
    /\ lib = NoCall
    /\ solver = SolverIdle

SpecSelect == InitSelect /\ [][SelectNext]_vars

\* the expiry consider_new_iron_condor gives a position it opens on current_date
ExpiryCall(current_date) ==
    /\ lib = NoCall
    /\ lib' = [ fn |-> "expiry", current_date |-> current_date,
                result |-> ExpiryDate(current_date) ]
    /\ UNCHANGED <<strategyVars, solver>>

\* the bar of the entry is dated today
ExpiryNext == ExpiryCall(today)

\* no strategy is running
NoRun ==
    /\ params = DefaultParams
    /\ put = PutInit
    /\ condor = CondorInit
    /\ cash = 0
    /\ data = 0
    /\ sma = 0
    /\ atr = [ value |-> 0, sum20 |-> 0 ]
    /\ bars = 0
    /\ raised = ""
    /\ log = << >>

InitExpiry ==
    /\ NoRun
    /\ today \in (StartDate + 1)..(StartDate + CalendarDays)
    /\ lib = NoCall
    /\ solver = SolverIdle

SpecExpiry == InitExpiry /\ [][ExpiryNext]_vars

----------------------------------------------------------------------------
(* Calls of utils/options_pricing.py *)

\* spot prices in cents: the smallest ones, $10 and $100
ChainSpots == 1..40 \cup {1000, 10000}

\* simulate_option_chain(underlying_price, 30, 0.2, 0.02)
ChainCall(underlying_price) ==
    /\ lib = NoCall
    /\ solver = SolverIdle
    /\ lib' = [ fn |-> "simulate_option_chain", underlying_price |-> underlying_price,
                result |-> SimulateOptionChain(underlying_price, 30, 2000, 200) ]
    /\ UNCHANGED <<strategyVars, solver>>

\* inputs of the pricer, valid and not: cents, days, 1/10^4
PricerSpots == {0 - 100, 0, 1000}
PricerStrikes == {0 - 100, 0, 1100}
PricerDays == {0 - 5, 0, 30}
PricerVols == {0 - 2000, 0, 2000}
OptionTypes == {"call", "put"}

\* black_scholes(S, K, T, 0.02, sigma, option_type)
PriceCall(S, K, days, sigma, option_type) ==
    /\ lib = NoCall
    /\ solver = SolverIdle
    /\ lib' = [ fn |-> "black_scholes", S |-> S, K |-> K, days |-> days, sigma |-> sigma,
                option_type |-> option_type,
                result |-> BlackScholesPrice(S, K, days, 200, sigma, option_type) ]
    /\ UNCHANGED <<strategyVars, solver>>

\* calculate_greeks(S, K, T, 0.02, sigma, option_type)
GreeksCall(S, K, days, sigma, option_type) ==
    /\ lib = NoCall
    /\ solver = SolverIdle
    /\ lib' = [ fn |-> "calculate_greeks", S |-> S, K |-> K, days |-> days, sigma |-> sigma,
                option_type |-> option_type,
                result |-> CalculateGreeks(S, K, days, 200, sigma, option_type) ]
    /\ UNCHANGED <<strategyVars, solver>>

\* inputs of the solver: cents, days (0 is the day of expiry), 1/1000 cent
SolverSpots == {7000, 10000, 12000}
SolverStrike == 10000
SolverDays == {0, 30, 60}
Precisions == {1, 5000}
IterationLimits == {3, MaxIterations}
\* prices below, at and above the intrinsic value and the cap, a negative one
MarketPrices(S, K, option_type) ==
    { 0 - 100000,
      Intrinsic(S, K, option_type) - 1, Intrinsic(S, K, option_type),
      Intrinsic(S, K, option_type) + 250000,
      PriceCap(S, K, option_type), PriceCap(S, K, option_type) + 1 }
\* volatilities a price is computed with, in 1/10^4
RoundTripVols == {5, 2000, 20000}

\* calculate_iv(market_price, S, K, T, 0.02, option_type, precision, max_iterations)
IvCall(market_price, S, K, days, option_type, precision, max_iterations, sigma) ==
    /\ lib = NoCall
    /\ solver = SolverIdle
    /\ solver' = EnterSolver(market_price, S, K, days, option_type, precision,
                             max_iterations, sigma)
    /\ UNCHANGED <<strategyVars, lib>>

\* calculate_iv(black_scholes(S, K, T, 0.02, sigma, option_type), S, K, T, 0.02, ...)
IvRoundTrip(S, K, days, sigma, option_type, precision, max_iterations) ==
    \E market_price \in { BlackScholesPrice(S, K, days, 200, sigma, option_type) } :
        IvCall(market_price, S, K, days, option_type, precision, max_iterations, sigma)

\* the body of "for i in range(max_iterations)"
IvIterate ==
    /\ solver.pc = "loop"
    /\ LoopContinues(solver.evaluations, solver.max_iterations)
    /\ \E vol_mid \in { VolMid(solver.vol_low, solver.vol_high) } :
       \E price \in { BlackScholesPrice(solver.S, solver.K, solver.days, 200,
                                        vol_mid \div VolScale, solver.option_type) } :
           solver' = Bisect(solver, vol_mid, price)
    /\ UNCHANGED <<strategyVars, lib>>

\* "return (vol_low + vol_high) / 2" after the loop
IvReturn ==
    /\ solver.pc = "loop"
    /\ ~LoopContinues(solver.evaluations, solver.max_iterations)
    /\ solver' = [ solver EXCEPT !.pc = "returned", !.by = "exhausted",
                                 !.result = VolMid(solver.vol_low, solver.vol_high) ]
    /\ UNCHANGED <<strategyVars, lib>>

PricingNext ==
    \/ \E S \in SolverSpots, days \in SolverDays, option_type \in OptionTypes,
          precision \in Precisions, max_iterations \in IterationLimits :
          \E market_price \in MarketPrices(S, SolverStrike, option_type) :
              IvCall(market_price, S, SolverStrike, days, option_type, precision,
                     max_iterations, 0)
    \/ \E S \in SolverSpots, days \in SolverDays \ {0}, sigma \in RoundTripVols,
          option_type \in OptionTypes, precision \in Precisions,
          max_iterations \in IterationLimits :
          IvRoundTrip(S, SolverStrike, days, sigma, option_type, precision, max_iterations)
    \/ IvIterate
    \/ IvReturn
    \/ \E underlying_price \in ChainSpots : ChainCall(underlying_price)
    \/ \E S \in PricerSpots, K \in PricerStrikes, days \in PricerDays, sigma \in PricerVols,
          option_type \in OptionTypes : PriceCall(S, K, days, sigma, option_type)
    \/ \E S \in PricerSpots, K \in PricerStrikes, days \in PricerDays, sigma \in PricerVols,
          option_type \in OptionTypes : GreeksCall(S, K, days, sigma, option_type)

InitPricing ==
    /\ NoRun
    /\ today = StartDate
    /\ lib = NoCall
    /\ solver = SolverIdle

SpecPricing == InitPricing /\ [][PricingNext]_vars

----------------------------------------------------------------------------
(* Properties of the short-put lifecycle *)

IsOpen(s) == s.active_option # None
Last(q) == q[Len(q)]
SoldLine == <<"SELL">>
InsufficientLines == <<"SELL", "Insufficient cash for margin requirement">>
WorthlessLine == <<"Put option expired worthless">>
AssignedLine == <<"Put assigned">>
EarlyCloseLine == <<"Closing put at profit target">>

\* C1: every step that closes a position (open before, idle after) appends
\* exactly one TradeRecord, for that position and dated this bar; no other step
\* changes the trade log; and while a position stays open it is the same
\* position, so it is open for one contiguous run of steps and closed once.
C1_OneRecordPerClose ==
    [][ /\ (IsOpen(put) /\ ~IsOpen(put')) =>
              /\ Len(put'.trades) = Len(put.trades) + 1
              /\ SubSeq(put'.trades, 1, Len(put.trades)) = put.trades
              /\ Last(put'.trades).entry_date = put.entry_date
              /\ Last(put'.trades).exit_date = today'
              /\ put'.trade_count = put.trade_count + 1
        /\ ~(IsOpen(put) /\ ~IsOpen(put')) =>
              /\ put'.trades = put.trades
              /\ put'.trade_count = put.trade_count
        /\ (IsOpen(put) /\ IsOpen(put')) => put'.entry_date = put.entry_date
      ]_vars

C1_Witness == Len(put.trades) = 2 /\ ~IsOpen(put) /\ put.trade_count = 2

\* C2: a position is opened in a step (the lifecycle goes from idle to open, or
\* premium is booked) only if no position was open when the step began and the
\* bar's close is strictly above the moving average; an idle step whose close
\* is not above the moving average changes nothing of the strategy.
C2_EntryGate ==
    [][ /\ ((~IsOpen(put) /\ IsOpen(put')) \/ put'.total_premium # put.total_premium
              \/ put'.entry_date # put.entry_date)
             => (~IsOpen(put) /\ data' > sma')
        /\ (~IsOpen(put) /\ ~(data' > sma')) => (put' = put /\ cash' = cash)
      ]_vars

C2_Witness == IsOpen(put) /\ put.entry_date = today /\ data = 100 /\ sma = 80

\* C3: in the state right after a position is opened, strike x contracts x 100
\* is at most the broker's cash (which the opening step does not change).
C3_MarginWithinCash ==
    (IsOpen(put) /\ put.entry_date = today)
        => put.strike_price * put.num_contracts * 100 <= cash

C3_Witness ==
    /\ IsOpen(put) /\ put.entry_date = today /\ put.num_contracts > 1
    /\ put.strike_price * put.num_contracts * 100 <= cash

\* C4: an idle step in an uptrend whose margin requirement exceeds the cash
\* leaves every field of the strategy (position fields, total_premium, trade
\* log) and the cash unchanged, and only logs the skipped trade.
C4_InsufficientCapitalSkips ==
    [][ (/\ ~IsOpen(put)
         /\ data' > sma'
         /\ LET strike == StrikePrice(data', params.put_delta)
                n == NumContracts(cash, params.risk_percentage,
                                  MaxLossPerContract(strike,
                                      OptionPremium(data', params.put_delta)))
            IN  strike * n * 100 > cash)
        => (put' = put /\ cash' = cash /\ log' = InsufficientLines)
      ]_vars

C4_Witness == log = InsufficientLines /\ ~IsOpen(put) /\ data > sma

\* C6: a step that monitors an open short put on or after its expiry date
\* closes it: with spot > strike it expires worthless and the record's profit
\* is the entry premium (100 percent); otherwise it is assigned and the
\* record's profit is premium - (strike - spot).
C6_Settlement ==
    [][ (IsOpen(put) /\ put.expiry_date - today' <= 0) =>
            /\ ~IsOpen(put')
            /\ put'.option_type = "NONE"
            /\ Len(put'.trades) = Len(put.trades) + 1
            /\ IF Dollars(data') > put.strike_price
               THEN /\ log' = WorthlessLine
                    /\ Last(put'.trades).profit = put.entry_price
                    /\ Last(put'.trades).profit_pct = <<100, 1>>
               ELSE /\ log' = AssignedLine
                    /\ Last(put'.trades).profit
                         = put.entry_price - (put.strike_price - Dollars(data'))
      ]_vars

C6_Witness ==
    /\ log = WorthlessLine /\ ~IsOpen(put)
    /\ Last(put.trades).profit = Last(put.trades).premium

\* C7: a position opened at spot 100 with put_delta 0.3 has strike 70, and at
\* expiry it is assigned if and only if spot < 70 and expires worthless for
\* every other spot, spot = 70 included.
C7_EndToEnd ==
    /\ (log = SoldLine /\ IsOpen(put) /\ data = 100 /\ params.put_delta = 30)
          => put.strike_price = Dollars(70)
    /\ (/\ log \in {WorthlessLine, AssignedLine}
        /\ Last(put.trades).strike = Dollars(70)
        /\ Last(put.trades).exit_date >= Last(put.trades).entry_date + days_to_expiry)
          => /\ (log = AssignedLine) <=> (data < 70)
             /\ (log = WorthlessLine) <=> ~(data < 70)

\* C8: a step that monitors an open short put before its expiry date closes it
\* if and only if profit / premium >= profit_target_pct, where
\* profit = premium - (max(0, strike - spot) + 0.8 * (days_left / 30) * (spot * 0.05));
\* otherwise the strategy's fields and the cash are unchanged.
C8_EarlyClose ==
    [][ (IsOpen(put) /\ put.expiry_date - today' > 0) =>
            LET days_left == put.expiry_date - today'
                spot == Dollars(data')
                intrinsic == IF put.strike_price > spot
                             THEN put.strike_price - spot ELSE 0
                \* 750 x profit: the time value is spot x days_left / 750
                profit750 == 750 * (put.entry_price - intrinsic) - spot * days_left
                reached == 100 * profit750
                             >= params.profit_target_pct * 750 * put.entry_price
            IN  /\ reached <=> ~IsOpen(put')
                /\ reached => /\ Len(put'.trades) = Len(put.trades) + 1
                              /\ 750 * Last(put'.trades).profit = profit750
                              /\ log' = EarlyCloseLine
                /\ ~reached => (put' = put /\ cash' = cash)
      ]_vars

C8_Witness ==
    /\ log = EarlyCloseLine /\ ~IsOpen(put)
    /\ 2 * Last(put.trades).profit = Last(put.trades).premium

----------------------------------------------------------------------------
(* Properties of the iron-condor lifecycle *)

CondorOpen(s) == s.active_options # None

\* the fields that describe the position
PositionFields(s) ==
    << s.active_options, s.option_type, s.entry_date, s.expiry_date,
       s.short_put_strike, s.long_put_strike, s.short_call_strike, s.long_call_strike,
       s.max_profit, s.max_loss, s.entry_credit >>

SizingError == "ZeroDivisionError in consider_new_iron_condor"
Opening(lines) == Len(lines) = 1 /\ lines[1].line = "Opening Iron Condor"
Closing(lines) == Len(lines) = 2 /\ lines[2].line = "Closing Iron Condor"

\* C5: position sizing never raises and yields at least one contract, equal to
\* max(1, floor(p * V / perContractRisk)), whatever the per-contract risk the
\* entry logic produced, zero and negative included: no run ends in the
\* sizing's division, and every opened position has such a contract count.
C5_SizingCompletes ==
    /\ raised # SizingError
    /\ IsOpen(put) => put.num_contracts >= 1
    /\ Opening(log) =>
          /\ log[1].contracts >= 1
          /\ log[1].max_risk # 0
          /\ log[1].contracts = Max(1, Floor(cash * params.risk_percentage,
                                             log[1].max_risk * 10000))

\* the three triggers of the monitoring step, from the logged status
ExpiryNear(status) == status.days_left <= params.exit_days_left
TargetMet(status) ==
    IF status.max_profit > 0
    THEN status.current_profit * 100 >= params.profit_target_pct * status.max_profit
    ELSE params.profit_target_pct <= 0
StopHit(status) ==
    /\ status.current_profit < 0
    /\ (0 - status.current_profit) * 100 > status.max_profit * params.loss_stop_pct

\* C9: a step that monitors an open iron condor closes it for the first of
\* expiry-proximity, profit-target, stop-loss that holds, in this order, and
\* keeps it unchanged if none holds; when expiry-proximity and profit-target
\* both hold, the reason is expiry-proximity.
C9_ExitPriority ==
    [][ (CondorOpen(condor) /\ raised' = "") =>
          LET status == log'[1]
          IN  /\ status.days_left = condor.expiry_date - today'
              /\ IF ExpiryNear(status)
                 THEN Closing(log') /\ log'[2].reason = "approaching expiration"
                 ELSE IF TargetMet(status)
                 THEN Closing(log') /\ log'[2].reason = "profit target reached"
                 ELSE IF StopHit(status)
                 THEN Closing(log') /\ log'[2].reason = "stop loss triggered"
                 ELSE ~Closing(log')
              /\ Closing(log') <=> ~CondorOpen(condor')
              /\ ~Closing(log') => PositionFields(condor') = PositionFields(condor)
      ]_vars

C9_Witness ==
    /\ Closing(log) /\ ~CondorOpen(condor)
    /\ log[2].reason = "approaching expiration"
    /\ ExpiryNear(log[1]) /\ TargetMet(log[1])

\* the entry conditions of a step on the bar (current_date, current_price), from
\* the estimates s the step has made: IV rank, both short legs, return on risk
EntryAllowed(s, current_date, current_price) ==
    /\ s.iv_rank >= params.iv_rank_min
    /\ LET chain == SimulateOptionChain(current_price,
                                        ExpiryDate(current_date) - current_date,
                                        s.iv_estimate, 200)
           p == FirstWithinDelta(chain.puts, params.put_delta)
           c == FirstWithinDelta(chain.calls, params.call_delta)
       IN  /\ p # 0
           /\ c # 0
           /\ LET short_put == chain.puts[p]
                  short_call == chain.calls[c]
                  long_put == FindClosestOption(chain.puts,
                                  short_put.strike * (100 - params.put_width))
                  long_call == FindClosestOption(chain.calls,
                                  short_call.strike * (100 + params.call_width))
                  credit == short_put.price - long_put.price
                            + short_call.price - long_call.price
                  width == Max(short_put.strike - long_put.strike,
                               long_call.strike - short_call.strike)
              IN  width > 0 /\ credit * 100 >= 15 * width

\* C10: a step opens an iron condor only if none was open when it began, the
\* IV rank is at least iv_rank_min, a short put and a short call within the
\* delta targets exist in the chain and credit / max(width) >= 0.15; an idle
\* step in which one of these fails stays idle with the position fields unchanged.
C10_EntryGate ==
    [][ /\ (CondorOpen(condor') /\ condor'.entry_date # condor.entry_date) =>
              /\ ~CondorOpen(condor)
              /\ EntryAllowed(condor', today', data')
              /\ condor'.entry_credit * 100
                    >= 15 * Max(condor'.short_put_strike - condor'.long_put_strike,
                                condor'.long_call_strike - condor'.short_call_strike)
        /\ (~CondorOpen(condor) /\ ~EntryAllowed(condor', today', data')) =>
              /\ ~CondorOpen(condor')
              /\ PositionFields(condor') = PositionFields(condor)
      ]_vars

C10_Witness ==
    /\ CondorOpen(condor) /\ condor.entry_date = today
    /\ condor.iv_rank = params.iv_rank_min
    /\ Opening(log)

----------------------------------------------------------------------------
(* Properties of the volatility state of the iron-condor lifecycle *)

VolatilityError == "ZeroDivisionError in estimate_implied_volatility"

\* C11: the IV rank is in [0, 1] in every reachable state of the iron-condor
\* lifecycle, whatever the closes and the ATR readings (zero and extreme ones
\* included), and computing it never raises.
C11_IvRankClamped ==
    /\ raised # VolatilityError
    /\ 0 <= condor.iv_rank /\ condor.iv_rank <= 10000

\* C12: after every step the window of closes holds at most 252 observations,
\* and they are the most recent closes in arrival order: the window before the
\* step followed by the bar's close, without its oldest entries once that
\* would be more than 252.
C12_RollingWindow ==
    [][ LET arrived == condor.close_hist \o <<data'>>
            kept == Min(252, Len(arrived))
        IN  /\ Len(condor'.close_hist) = kept
            /\ \A i \in 1..kept :
                   condor'.close_hist[i] = arrived[Len(arrived) - kept + i]
      ]_vars

\* a full window has lost its oldest close to a bar at another price
C12_Witness ==
    /\ bars = 2
    /\ Len(condor.close_hist) = 252
    /\ condor.close_hist[250] = BasePrice
    /\ condor.close_hist[251] # BasePrice
    /\ condor.close_hist[252] = BasePrice

----------------------------------------------------------------------------
(* Properties of the expiry selection *)

\* the third Friday of a month: the Friday among its days 15 .. 21
ThirdFriday(year, month) ==
    CHOOSE z \in Date(year, month, 15)..Date(year, month, 21) : Weekday(z) = 4

\* the third Friday of the month `months` months after the month of date z
ThirdFridayAfter(z, months) ==
    LET c == CivilFromDays(z)
        m == (c.month - 1) + months
    IN  ThirdFriday(c.year + (m \div 12), (m % 12) + 1)

\* C20: the expiry chosen for an entry date is the third Friday of the month
\* following it or, when that is fewer than days_to_expiry days away, the
\* third Friday of the month after that, exactly one month further; it is a
\* Friday on day 15 .. 21 of its month.
C20_ExpirySelection ==
    lib.fn = "expiry" =>
        /\ lib.result =
              IF ThirdFridayAfter(lib.current_date, 1) - lib.current_date
                     < params.days_to_expiry
              THEN ThirdFridayAfter(lib.current_date, 2)
              ELSE ThirdFridayAfter(lib.current_date, 1)
        /\ Weekday(lib.result) = 4
        /\ CivilFromDays(lib.result).day \in 15..21

----------------------------------------------------------------------------
(* Properties of the pricing library *)

\* the strikes of a list of contracts
StrikesOf(contracts) == [ i \in 1..Len(contracts) |-> contracts[i].strike ]

StrictlyIncreasing(q) == \A i \in 1..(Len(q) - 1) : q[i] < q[i + 1]

\* C13: for every positive spot price the strikes of the chain that
\* simulate_option_chain returns, rounded to the cent, are strictly increasing,
\* for the calls and for the puts
C13_StrikesStrictlyIncreasing ==
    (lib.fn = "simulate_option_chain" /\ lib.underlying_price > 0)
    => /\ StrictlyIncreasing(StrikesOf(lib.result.calls))
       /\ StrictlyIncreasing(StrikesOf(lib.result.puts))

\* C14: simulate_option_chain returns exactly 9 calls and 9 puts on the same
\* ladder; the lowest strike is 80% of the spot, the highest 120%, the 5th is
\* the spot (each to the cent), and for a spot of 100 the strikes are
\* 80, 85, ..., 120
C14_LadderShape ==
    lib.fn = "simulate_option_chain"
    => LET spot == lib.underlying_price
           calls == StrikesOf(lib.result.calls)
           puts == StrikesOf(lib.result.puts)
       IN  /\ Len(calls) = 9
           /\ Len(puts) = 9
           /\ calls = puts
           /\ Abs(100 * calls[1] - 80 * spot) <= 50
           /\ calls[5] = spot
           /\ Abs(100 * calls[9] - 120 * spot) <= 50
           /\ spot = 10000
              => calls = <<8000, 8500, 9000, 9500, 10000, 10500, 11000, 11500, 12000>>

\* the chain of a spot of 100 has been computed
C14_Witness ==
    /\ lib.fn = "simulate_option_chain"
    /\ lib.underlying_price = 10000
    /\ lib.result.puts[9].strike = 12000

\* C15: black_scholes returns exactly 0 and calculate_greeks the all-zero
\* bundle whenever the spot, the strike, the time to expiry or the volatility
\* is not positive, for calls and for puts
C15_Degeneracy ==
    (/\ lib.fn \in {"black_scholes", "calculate_greeks"}
     /\ (lib.S <= 0 \/ lib.K <= 0 \/ lib.days <= 0 \/ lib.sigma <= 0))
    => IF lib.fn = "black_scholes" THEN lib.result = 0
       ELSE \A greek \in {"delta", "gamma", "theta", "vega", "rho"} : lib.result[greek] = 0

\* a put has been priced with a spot of zero and everything else valid
C15_Witness ==
    /\ lib.fn = "black_scholes"
    /\ lib.option_type = "put"
    /\ lib.S = 0 /\ lib.K = 1100 /\ lib.days = 30 /\ lib.sigma = 2000
    /\ lib.result = 0

\* C16: calculate_iv returns 0 when the market price is below the intrinsic
\* value (max(0, S - K) for a call, max(0, K - S) for a put), returns the upper
\* bound 5.0 when the price exceeds the spot (call) or the strike (put), both
\* without pricing anything; only otherwise does it bisect
C16_BoundaryPolicy ==
    solver.pc # "idle"
    => LET intrinsic == IF solver.option_type = "call" THEN Max(0, solver.S - solver.K)
                        ELSE Max(0, solver.K - solver.S)
           limit == IF solver.option_type = "call" THEN solver.S ELSE solver.K
           below == solver.market_price < intrinsic * 1000
           above == solver.market_price > limit * 1000
           bisects == solver.pc = "loop" \/ solver.evaluations > 0
       IN  /\ below => (solver.pc = "returned" /\ solver.result = 0)
           /\ above => (solver.pc = "returned" /\ solver.result = 50000 * VolScale)
           /\ (below \/ above) <=> ~bisects

\* a call priced at its intrinsic value is being bisected
C16_Witness ==
    /\ solver.pc = "loop"
    /\ solver.option_type = "call"
    /\ solver.S = 12000 /\ solver.K = 10000
    /\ solver.market_price = 2000000
    /\ solver.evaluations = 2

\* the call has reached the loop, or has returned from it
Bisecting(s) == s.pc = "loop" \/ (s.pc = "returned" /\ s.by # "boundary")

\* C17: the bisection prices at most max_iterations times and then returns;
\* 0.001 <= vol_low <= vol_high <= 5.0 throughout, each iteration halves the
\* interval, the value returned lies in [0.001, 5.0] and is the midpoint of
\* the last interval when no iterate converged
C17_Termination ==
    [][ Bisecting(solver')
        => /\ 10 * VolScale <= solver'.vol_low
           /\ solver'.vol_low <= solver'.vol_high
           /\ solver'.vol_high <= 50000 * VolScale
           /\ solver'.evaluations <= solver'.max_iterations
           /\ (solver.pc = "loop" /\ solver'.pc = "loop")
              => /\ solver'.evaluations = solver.evaluations + 1
                 /\ 2 * (solver'.vol_high - solver'.vol_low)
                    = solver.vol_high - solver.vol_low
           /\ solver'.pc = "returned"
              => /\ 10 * VolScale <= solver'.result
                 /\ solver'.result <= 50000 * VolScale
                 /\ solver'.by = "exhausted"
                    => /\ solver'.evaluations = solver'.max_iterations
                       /\ solver'.result - solver'.vol_low
                          = solver'.vol_high - solver'.result
                       /\ solver'.vol_low = solver.vol_low
                       /\ solver'.vol_high = solver.vol_high ]_vars

\* the loop has run out of iterations at the largest limit, and the midpoint
\* of what is left of the interval was returned
C17_Witness ==
    /\ solver.pc = "returned"
    /\ solver.by = "exhausted"
    /\ solver.max_iterations > 3
    /\ solver.evaluations = solver.max_iterations
    /\ solver.vol_low > 10 * VolScale
    /\ solver.vol_high < 50000 * VolScale

\* C18: calculate_iv applied to black_scholes(S, K, T, r, sigma), for valid
\* S, K, T, r and sigma in (0, 2], returns sigma within the precision it was
\* called with (1/10^5 is a tenth of 1/10^4); the calls that ran out of
\* iterations are left aside
C18_RoundTrip ==
    (solver.pc = "returned" /\ solver.sigma > 0 /\ solver.by # "exhausted")
    => Abs(solver.result - solver.sigma * VolScale) <= (solver.precision * VolScale) \div 10

----------------------------------------------------------------------------
(* Properties of the close and of the life of a position *)

\* the fields of the volatility estimator
VolatilityState(s) == << s.close_hist, s.hv_20, s.iv_estimate, s.iv_rank >>

\* the fields after the part of next() that precedes the decision: the window,
\* the historical volatility and the estimates, for a bar that raises nothing
VolatilityUpdate(s, a, current_price) ==
    With(AppendClose(s.close_hist, current_price), LAMBDA close_hist :
    With(IF Len(close_hist) >= 20
         THEN [ s EXCEPT !.close_hist = close_hist,
                         !.hv_20 = CalculateHistoricalVolatility(close_hist) ]
         ELSE [ s EXCEPT !.close_hist = close_hist ], LAMBDA s1 :
         EstimateImpliedVolatility(s1, a, current_price)[1]))

\* C21: when an exit trigger fires in a step that monitors an open iron condor,
\* the step ends idle with every position field (option type, entry and expiry
\* date, the four strikes, max profit, max loss, entry credit) at its initial
\* value, no trade record is written and no cash moves, and the volatility
\* state is the one the step computed before the close.
C21_CloseResets ==
    [][ (/\ CondorOpen(condor)
         /\ raised' = ""
         /\ (ExpiryNear(log'[1]) \/ TargetMet(log'[1]) \/ StopHit(log'[1])))
        => /\ ~CondorOpen(condor')
           /\ PositionFields(condor') = PositionFields(CondorInit)
           /\ VolatilityState(condor')
                 = VolatilityState(VolatilityUpdate(condor, atr', data'))
           /\ put'.trades = put.trades
           /\ cash' = cash
      ]_vars

\* a position has been closed at its profit target; the estimates are still there
C21_Witness ==
    /\ Closing(log)
    /\ log[2].reason = "profit target reached"
    /\ PositionFields(condor) = PositionFields(CondorInit)
    /\ condor.iv_estimate > 0
    /\ condor.iv_rank > 0

\* the fields that describe the short put
PutPositionFields(s) ==
    << s.strike_price, s.entry_price, s.entry_date, s.expiry_date, s.num_contracts >>

\* C22: while a position stays open (open before a step and open after it) no
\* step changes its strike(s), entry premium or credit, entry date, expiry
\* date, max profit, max loss or contract count, for the short put and for the
\* iron condor.
C22_PositionImmutable ==
    [][ /\ (IsOpen(put) /\ IsOpen(put'))
              => PutPositionFields(put') = PutPositionFields(put)
        /\ (CondorOpen(condor) /\ CondorOpen(condor'))
              => PositionFields(condor') = PositionFields(condor)
      ]_vars

\* an iron condor has been monitored on a later bar and is still open
C22_Witness ==
    /\ CondorOpen(condor)
    /\ condor.entry_date < today
    /\ Len(log) = 1
    /\ log[1].line = "Iron Condor"
    /\ condor.short_call_strike < condor.long_call_strike

\* C25: a step that monitors an open short put on or after its expiry date
\* ends idle, and a step that monitors an open iron condor with at most
\* exit_days_left days to its expiry ends idle, whatever the spot price.
C25_NoSurvivor ==
    [][ /\ (IsOpen(put) /\ put.expiry_date <= today') => ~IsOpen(put')
        /\ (/\ CondorOpen(condor)
            /\ raised' = ""
            /\ condor.expiry_date - today' <= params.exit_days_left)
              => ~CondorOpen(condor')
      ]_vars

\* a short put has been settled on a bar after its expiry date
C25_Witness ==
    /\ ~IsOpen(put)
    /\ Len(put.trades) >= 1
    /\ log \in {WorthlessLine, AssignedLine}
    /\ Last(put.trades).exit_date = today
    /\ today > Last(put.trades).entry_date + days_to_expiry

----------------------------------------------------------------------------
(* Properties of the order of a step of the iron-condor lifecycle *)

\* the profit of the position s on a bar, its legs priced in the chain of the
\* bar at the volatility iv
RepricedProfit(s, iv, current_date, current_price) ==
    LET chain == SimulateOptionChain(current_price, Max(1, s.expiry_date - current_date),
                                     iv, 200)
        short_put == FindClosestOption(chain.puts, s.short_put_strike * 100)
        long_put == FindClosestOption(chain.puts, s.long_put_strike * 100)
        short_call == FindClosestOption(chain.calls, s.short_call_strike * 100)
        long_call == FindClosestOption(chain.calls, s.long_call_strike * 100)
    IN  s.entry_credit + short_put.price - long_put.price
                       + short_call.price - long_call.price

\* C23: in every step of the iron-condor lifecycle that raises nothing, the
\* volatility state is updated exactly once, and before the decision: the
\* monitoring prices the position at the estimate of this bar, and an entry
\* passes the IV-rank gate of this bar.  Exactly one of the two runs, chosen by
\* the state at the start of the step: a step that begins with a position
\* monitors it and opens nothing, so a position closed in a step is not
\* replaced in that step; a step that begins idle monitors nothing.
C23_StepOrdering ==
    [][ raised' = ""
        => /\ VolatilityState(condor')
                 = VolatilityState(VolatilityUpdate(condor, atr', data'))
           /\ IF CondorOpen(condor)
              THEN /\ Len(log') >= 1
                   /\ log'[1].line = "Iron Condor"
                   /\ log'[1].current_profit
                         = RepricedProfit(condor, condor'.iv_estimate, today', data')
                   /\ ~Opening(log')
                   /\ CondorOpen(condor')
                         => PositionFields(condor') = PositionFields(condor)
              ELSE /\ log' = << >> \/ Opening(log')
                   /\ Opening(log') <=> CondorOpen(condor')
                   /\ CondorOpen(condor')
                         => /\ condor'.iv_rank >= params.iv_rank_min
                            /\ condor'.entry_date = today'
      ]_vars

\* a step has closed a position at an estimate that differs from the one of
\* the bar before, and has opened none
C23_Witness ==
    /\ Closing(log)
    /\ ~CondorOpen(condor)
    /\ bars = 3
    /\ condor.iv_estimate = 5556
    /\ atr.value = 70
    /\ data = 1000

----------------------------------------------------------------------------
(* Properties of the strike selection *)

\* strike is the strike of the first option of the list, in its order, whose
\* absolute delta is at most limit
IsFirstWithin(options_list, limit, strike) ==
    \E i \in 1..Len(options_list) :
        /\ options_list[i].strike = strike
        /\ Abs(options_list[i].delta) <= limit
        /\ \A j \in 1..(i - 1) : Abs(options_list[j].delta) > limit

\* strike is a strike of the list closest to target (in 1/100 cent), the lower
\* one if two are as close
IsClosestLower(options_list, target, strike) ==
    /\ \E i \in 1..Len(options_list) : options_list[i].strike = strike
    /\ \A j \in 1..Len(options_list) :
          LET other == options_list[j].strike
          IN  /\ Abs(other * 100 - target) >= Abs(strike * 100 - target)
              /\ Abs(other * 100 - target) = Abs(strike * 100 - target) => other >= strike

----------------------------------------------------------------------------
(* Properties of the legs of an open iron condor *)

\* C26: in every state with an open iron condor,
\* long_put_strike < short_put_strike < short_call_strike < long_call_strike.
C26_LegOrdering ==
    CondorOpen(condor)
        => /\ condor.long_put_strike < condor.short_put_strike
           /\ condor.short_put_strike < condor.short_call_strike
           /\ condor.short_call_strike < condor.long_call_strike

----------------------------------------------------------------------------
(* Properties of the profit of an open iron condor *)

\* C28: an iron condor repriced at the spot, the days to expiry and the
\* volatility of its entry shows a current profit of 0, and current profit and
\* max_profit are in one unit: the profit is the whole entry credit exactly
\* when it is max_profit.
C28_MarkToMarket ==
    (CondorOpen(condor) /\ condor.entry_date = today)
        => /\ RepricedProfit(condor, condor.iv_estimate, today, data) = 0
           /\ condor.max_profit = condor.entry_credit

----------------------------------------------------------------------------
(* Properties of the trade log of the short-put lifecycle *)

\* sum(trade['total_profit'] for trade in self.trades)
RECURSIVE TotalTradeProfit(_)
TotalTradeProfit(trades) ==
    IF trades = << >> THEN 0
    ELSE trades[1].total_profit + TotalTradeProfit(Tail(trades))

\* C29: a step that closes the short put credits the broker with the
\* total_profit of the TradeRecord it appends, which is profit x contracts x 100,
\* and no other step changes the cash, so the cash credited since the start is
\* the sum of total_profit over the trade log; and
\* trade_count = len(trades) = winning_trades + losing_trades.
C29_Accounting ==
    [][ /\ IF Len(put'.trades) = Len(put.trades) + 1
           THEN LET trade == Last(put'.trades)
                IN  /\ cash' - cash = trade.total_profit
                    /\ trade.total_profit = trade.profit * trade.contracts * 100
           ELSE put'.trades = put.trades /\ cash' = cash
        /\ cash' - TotalTradeProfit(put'.trades) \in { Dollars(x) : x \in StartCash }
        /\ put'.trade_count = Len(put'.trades)
        /\ put'.trade_count = put'.winning_trades + put'.losing_trades ]_vars

\* an assignment was recorded as a losing trade and its loss taken from the cash
C29_Witness ==
    /\ log = AssignedLine
    /\ put.trade_count = 1
    /\ put.losing_trades = 1
    /\ put.winning_trades = 0
    /\ Last(put.trades).contracts = 1
    /\ Last(put.trades).total_profit = Last(put.trades).profit * 100
    /\ Last(put.trades).total_profit < 0
    /\ cash = Dollars(100000) + Last(put.trades).total_profit

\* C30: in every TradeRecord, days_held = exit_date - entry_date, for an early
\* close and for a settlement, also one on a bar later than the expiry date.
C30_DaysHeld ==
    \A i \in 1..Len(put.trades) :
        put.trades[i].days_held = put.trades[i].exit_date - put.trades[i].entry_date

----------------------------------------------------------------------------
(* Properties of the exit triggers of the iron condor *)

\* the driver can feed at most n more bars to the fields s, the last bar fed
\* being of current_date, so that the position is closed for `reason`
RECURSIVE ClosesFor(_, _, _, _)
ClosesFor(reason, s, current_date, n) ==
    /\ n > 0
    /\ \E gap \in CondorGaps, current_price \in CondorPrices, a \in AtrReadings :
          With(IronCondorNext(s, cash, current_date + gap, current_price, a), LAMBDA r :
              /\ r[3] = ""
              /\ \/ Closing(r[2]) /\ r[2][2].reason = reason
                 \/ CondorOpen(r[1]) /\ ClosesFor(reason, r[1], current_date + gap, n - 1))

\* C27: for an open iron condor with more than exit_days_left days remaining
\* there is a sequence of bars after which it is closed by the profit-target
\* trigger, and a sequence of bars after which it is closed by the stop-loss
\* trigger.
C27_TriggersReachable ==
    (/\ CondorOpen(condor)
     /\ raised = ""
     /\ bars < MaxBars
     /\ condor.expiry_date - today > params.exit_days_left)
        => /\ ClosesFor("profit target reached", condor, today, MaxBars - bars)
           /\ ClosesFor("stop loss triggered", condor, today, MaxBars - bars)

====
